---- MODULE Spec2Model ----
(***************************************************************************)
(* Groove music player: the MusicPlayer controller of src/js/app.js, the   *)
(* caching playSong of the second controller variant                       *)
(* (src/unnamed/part_001), and the library operations (liked songs and     *)
(* playlists) with their durable store.                                    *)
(*                                                                         *)
(* Songs are identified by their id; a string is a sequence of one-letter  *)
(* strings, so that trim, toLowerCase and includes are computed.           *)
(***************************************************************************)
EXTENDS Integers, Sequences, FiniteSets, TLC

\* ------------------------------------------------------------------ bounds
\* Number of songs of the catalog (songs.json).
MaxSongs == 3
\* Number of playSong calls of the caching variant that may be in flight.
MaxInFlight == 2
\* Number of handleLoadedMetadata listeners that may be installed at once.
MaxListeners == 1
\* Number of focus timers that may be set and not yet fired.
MaxTimers == 1

\* ------------------------------------------------------------ text helpers
Range(s) == {s[i] : i \in 1..Len(s)}

NoDup(s) == \A i, j \in 1..Len(s) : i # j => s[i] # s[j]

\* Array.prototype.filter
RECURSIVE SelectSeqBy(_, _)
SelectSeqBy(s, keep) ==
  IF s = <<>> THEN <<>>
  ELSE IF Head(s) \in keep
       THEN <<Head(s)>> \o SelectSeqBy(Tail(s), keep)
       ELSE SelectSeqBy(Tail(s), keep)

\* String.prototype.toLowerCase, letter by letter
LowerChar(c) ==
  CASE c = "A" -> "a"
    [] c = "B" -> "b"
    [] c = "D" -> "d"
    [] c = "F" -> "f"
    [] c = "J" -> "j"
    [] c = "L" -> "l"
    [] c = "O" -> "o"
    [] c = "R" -> "r"
    [] OTHER -> c

toLowerCase(s) == [i \in 1..Len(s) |-> LowerChar(s[i])]

\* String.prototype.trim: leading and trailing white space removed
RECURSIVE TrimLeft(_)
TrimLeft(s) ==
  IF s # <<>> /\ Head(s) = " " THEN TrimLeft(Tail(s)) ELSE s

RECURSIVE TrimRight(_)
TrimRight(s) ==
  IF s # <<>> /\ s[Len(s)] = " " THEN TrimRight(SubSeq(s, 1, Len(s) - 1)) ELSE s

trim(s) == TrimRight(TrimLeft(s))

\* String.prototype.includes
includes(s, q) ==
  \E k \in 0..(Len(s) - Len(q)) : SubSeq(s, k + 1, k + Len(q)) = q

\* The remainder operator of JavaScript: the sign follows the dividend.
JsRem(a, n) == IF a >= 0 THEN a % n ELSE -((-a) % n)

\* Array.prototype.findIndex on ids, 0-based, -1 when absent
FindIndex(s, id) ==
  IF \E i \in 1..Len(s) : s[i] = id
  THEN (CHOOSE i \in 1..Len(s) : s[i] = id /\ \A j \in 1..(i - 1) : s[j] # id) - 1
  ELSE -1

\* ---------------------------------------------------------------- catalog
\* The value of currentSong when there is none (null).
NoSong == 0

SongTitles ==
  << <<"L", "o", "-", "F", "i">>, <<"R", "o", "c", "k">>, <<"B", "l", "u">>,
     <<"A", "r", "i", "a">>, <<"O", "d", "e">> >>

SongArtists ==
  << <<"D", "J">>, <<"L", "o", "l", "a">>, <<"a", "b">>,
     <<"b", "o", "b">>, <<"r", "a">> >>

SongIds == 1..MaxSongs

\* The id of a song that is in the durable store but not in the catalog.
StaleId == MaxSongs + 1

AllIds == SongIds \cup {StaleId}

\* The songs of songs.json, in catalog order
Catalog == [i \in 1..MaxSongs |-> i]

titleOf(id) == SongTitles[((id - 1) % Len(SongTitles)) + 1]

artistOf(id) == SongArtists[((id - 1) % Len(SongArtists)) + 1]

\* The instants Date.now() is read at, in milliseconds since the page was
\* opened
TimePoints == {0, 1, 299000, 300000, 301000}

\* The instants, before the page was opened, at which the playlists found in
\* the durable store were created
StoredTimes == {-2, -1}

\* The playlist ids a handler may be called with: those of the stored
\* playlists and the one a creation at the opening of the page gives
PlaylistIdInputs == StoredTimes \cup {0}

VARIABLES
  songs,            \* this.songs: the catalog as loaded (ids, catalog order)
  filteredSongs,    \* this.filteredSongs
  songsLoaded,      \* this.songsLoaded
  loadState,        \* the loadSongs() promise: "none" before the call, "pending",
                    \* "done", or "failed" when its catch block ran
  likedSongs,       \* this.likedSongs (ids, in insertion order)
  playlists,        \* this.playlists: records [id, name, songs]
  storeLiked,       \* localStorage grooveLikedSongs
  storePlaylists,   \* localStorage groovePlaylists
  storeSnapshot,    \* localStorage groovePlaybackState
  currentSong,      \* this.currentSong (an id, NoSong for null)
  currentPlaylist,  \* this.currentPlaylist
  currentIndex,     \* this.currentIndex
  isPlaying,        \* this.isPlaying
  currentView,      \* this.currentView
  audioSrc,         \* the song whose audio is the source of this.audio
  audioPaused,      \* this.audio.paused
  audioEnded,       \* this.audio.ended
  playPromise,      \* the caller of the pending audio.play() promise, or "none"
  metadataPending,  \* a loadedmetadata event of the current source is to come
  resumeListeners,  \* the handleLoadedMetadata listeners that resume installed,
                    \* each the state (songId, currentTime) of its closure
  pendingEvents,    \* media element tasks queued on this.audio, not yet run
  inFlight,         \* caching variant: the playSong calls awaiting their fetch
  tempSongCache,    \* caching variant: localStorage grooveTempSongCache
  now,              \* Date.now()
  error,            \* the message of the error modal ("none" when hidden)
  result,           \* history: the last library call, its arguments and return path
  likeProbe,        \* history: the run of toggleSongLike calls under way
  page,             \* new MusicPlayer(): "constructing", "running" once it
                    \* returned, "threw" when it threw
  focusTimers,      \* the 100 ms timers that handleWindowFocus set, not yet fired
  audioTime,        \* this.audio.currentTime
  audioError,       \* this.audio.error is set: the source could not be loaded
  playerElements,   \* this.playerElements: the values of the progress sliders of
                    \* the full player (progress) and the mini player (miniProgress)
  mediaSession,     \* navigator.mediaSession: the song of its metadata, its
                    \* playbackState and the position of its position state
  worker,           \* the service worker: its caches, the fetch events it
                    \* is answering and the last answer it gave
  audioVolume,      \* this.audio.volume, in hundredths
  wakeLock          \* the screen wake lock: this.wakeLock, the locks the
                    \* platform holds and the promises not yet settled

vars ==
  << songs, filteredSongs, songsLoaded, loadState, likedSongs, playlists,
     storeLiked, storePlaylists, storeSnapshot, currentSong, currentPlaylist,
     currentIndex, isPlaying, currentView, audioSrc, audioPaused,
     audioEnded, playPromise, metadataPending, resumeListeners,
     pendingEvents, inFlight, tempSongCache, now, error, result, likeProbe,
     page, focusTimers, audioTime, audioError, playerElements, mediaSession,
     worker, audioVolume, wakeLock >>

catalogVars == << songs, filteredSongs, songsLoaded, loadState >>
libraryVars == << likedSongs, playlists, storeLiked, storePlaylists >>
sessionVars == << currentSong, currentPlaylist, currentIndex >>
audioVars ==
  << isPlaying, audioSrc, audioPaused, audioEnded, playPromise,
     metadataPending, resumeListeners, pendingEvents, audioTime,
     audioError, audioVolume >>
viewVars == << currentView >>
displayVars == << playerElements, mediaSession >>
workerVars == << worker >>
wakeVars == << wakeLock >>
cacheVars == << inFlight, tempSongCache >>
probeVars == << likeProbe >>
pageVars == << page, focusTimers >>

\* The volume of an audio element that no one has set: 1
FullVolume == 100

\* The playback snapshot when the key is absent from the store
NoSnapshot ==
  [present |-> FALSE, malformed |-> FALSE, songId |-> NoSong, currentTime |-> 0,
   isPlaying |-> FALSE, timestamp |-> 0, volume |-> FullVolume]

\* The progress sliders of the page as loaded
InitialElements == [progress |-> 0, miniProgress |-> 0]

\* navigator.mediaSession before the first updateMediaSession.  The position
\* of its position state is followed where the seeks are (FollowedPosition)
\* and is left at 0 elsewhere.
NoPublication ==
  [song |-> NoSong, playbackState |-> "none", position |-> 0,
   positionFollowed |-> FALSE]

FollowedPosition == [NoPublication EXCEPT !.positionFollowed = TRUE]

\* No answer of the service worker
NoReply == [request |-> <<>>, kind |-> "none", status |-> 0, contacted |-> FALSE]

\* No service worker is registered: no cache holds a response, no fetch event
\* is under way
NoWorker ==
  [state |-> "none", caches |-> [name \in {} |-> {}], fetches |-> {},
   puts |-> {}, reply |-> NoReply]

UpdateMetadataOnly(ms, song, playing, durationKnown, time) ==
  IF song = NoSong THEN ms ELSE [ms EXCEPT !.song = song]

\* updateMediaSession: with a current song, its metadata and the playing flag
\* are published, and the position when audio.duration is known
UpdateMediaSession(ms, song, playing, durationKnown, time) ==
  IF song = NoSong THEN ms
  ELSE [ms EXCEPT
          !.song = song,
          !.playbackState = IF playing THEN "playing" ELSE "paused",
          !.position = IF durationKnown /\ ms.positionFollowed THEN time ELSE @]

IdleLike == [id |-> NoSong, k |-> 0, before |-> <<>>]

Called(op, args, path) == [op |-> op, args |-> args, path |-> path]
NoCall == Called("none", <<>>, "none")

\* Any handler but the probed ones ends the runs under way.
ResetProbes == likeProbe' = IdleLike


\* ------------------------------------------------------- inputs of the UI
\* What the user may type into the playlist name field
NameInputs ==
  { <<>>, <<" ">>, <<"a">>, <<"A">>, <<" ", "a">>, <<"A", " ">>, <<"b">>,
    <<" ", " ">> }

\* What the durable store may hold for the playlists at startup: values that
\* saveData wrote in an earlier session.
StoredPlaylistChoices ==
  { <<>>,
    << [id |-> -1, name |-> <<"b">>, songs |-> <<>>] >>,
    << [id |-> -2, name |-> <<"a">>, songs |-> <<2>>],
       [id |-> -1, name |-> <<"B">>, songs |-> <<StaleId>>] >> }

\* What the durable store may hold for the liked songs at startup.
RECURSIVE DupFreeSeqs(_)
DupFreeSeqs(S) ==
  IF S = {} THEN {<<>>}
  ELSE {<<>>} \cup
       UNION {{<<x>> \o t : t \in DupFreeSeqs(S \ {x})} : x \in S}

StoredLikedChoices == DupFreeSeqs(AllIds)

\* ------------------------------------------------------------- catalog load
\* How loadSongs settles: "ok" a well-formed payload; "networkError" fetch
\* rejects; "badStatus" a response that is not ok; "badJson" a body that
\* response.json() rejects; "noSongsList" a body that parses but holds no
\* songs list.
LoadOutcomes == {"ok", "networkError", "badStatus", "badJson", "noSongsList"}

\* The outcomes that throw inside the try block of loadSongs
LoadThrows(outcome) == outcome \in {"networkError", "badStatus", "badJson"}

LoadSongsDone(outcome) ==
  /\ loadState = "pending"
  /\ loadState' = IF LoadThrows(outcome) THEN "failed" ELSE "done"
  /\ songs' = IF outcome = "ok" THEN Catalog ELSE <<>>
  /\ filteredSongs' = songs'
  /\ songsLoaded' = TRUE
  /\ error' = IF LoadThrows(outcome) THEN "LoadFailed" ELSE error
  /\ ResetProbes
  /\ UNCHANGED << pageVars, libraryVars, storeSnapshot, sessionVars, audioVars,
                  viewVars, workerVars, wakeVars, displayVars, cacheVars, now, result >>

\* The clock advances between two handlers.
Tick ==
  /\ \E t \in TimePoints : t > now /\ now' = t
  /\ UNCHANGED << pageVars, catalogVars, libraryVars, storeSnapshot, sessionVars,
                  audioVars, viewVars, workerVars, wakeVars, displayVars, cacheVars, error, result, probeVars >>

hideErrorModal ==
  /\ error # "none"
  /\ error' = "none"
  /\ UNCHANGED << pageVars, catalogVars, libraryVars, storeSnapshot, sessionVars,
                  audioVars, viewVars, workerVars, wakeVars, displayVars, cacheVars, now, result, probeVars >>

\* ------------------------------------------------------------ library state
SaveLikedOnly(liked, lists) ==
  /\ storeLiked' = liked
  /\ UNCHANGED storePlaylists

\* saveData: both collections are written, whichever changed
saveData(liked, lists) ==
  /\ storeLiked' = liked
  /\ storePlaylists' = lists

InCatalog(songId) == songId \in Range(songs)

Without(s, x) == SelectSeqBy(s, Range(s) \ {x})

ToggleLikedAlwaysPush(liked, songId) == Append(liked, songId)

\* toggleSongLike, the list after the call
ToggleLiked(liked, songId) ==
  IF songId \in Range(liked) THEN Without(liked, songId) ELSE Append(liked, songId)

toggleSongLike(songId) ==
  /\ likeProbe' = IF likeProbe.id = songId /\ likeProbe.k = 1
                  THEN [likeProbe EXCEPT !.k = 2]
                  ELSE [id |-> songId, k |-> 1, before |-> likedSongs]
  /\ IF ~InCatalog(songId)
     THEN /\ result' = Called("toggleSongLike", <<songId>>, "NotInCatalog")
          /\ UNCHANGED libraryVars
     ELSE /\ likedSongs' = ToggleLiked(likedSongs, songId)
          /\ saveData(likedSongs', playlists)
          /\ result' = Called("toggleSongLike", <<songId>>, "Toggled")
          /\ UNCHANGED playlists
  /\ UNCHANGED << pageVars, catalogVars, storeSnapshot, sessionVars, audioVars,
                  viewVars, workerVars, wakeVars, displayVars, cacheVars, now, error >>

\* toggleLike: the like button of the player and the L key
toggleLike ==
  /\ currentSong # NoSong
  /\ toggleSongLike(currentSong)

PlaylistNameUntrimmed(input) == input

\* createPlaylist: the name read from the input field
PlaylistName(input) == trim(input)

SameNameExact(a, b) == a = b

\* createPlaylist: the comparison of two playlist names
SameName(a, b) == toLowerCase(a) = toLowerCase(b)

NameTaken(name) == \E i \in 1..Len(playlists) : SameName(playlists[i].name, name)

createPlaylist(input) ==
  LET name == PlaylistName(input) IN
  /\ ResetProbes
  /\ IF name = <<>>
     THEN /\ result' = Called("createPlaylist", input, "EmptyName")
          /\ UNCHANGED << libraryVars, viewVars, workerVars, wakeVars, displayVars, error >>
     ELSE IF NameTaken(name)
     THEN /\ result' = Called("createPlaylist", input, "DuplicateName")
          /\ error' = "DuplicateName"
          /\ UNCHANGED << libraryVars, viewVars, workerVars, wakeVars, displayVars >>
     ELSE /\ playlists' = Append(playlists, [id |-> now, name |-> name, songs |-> <<>>])
          /\ saveData(likedSongs, playlists')
          /\ currentView' = "playlists"
          /\ UNCHANGED << displayVars, workerVars, wakeVars >>
          /\ result' = Called("createPlaylist", input, "Created")
          /\ UNCHANGED << likedSongs, error >>
  /\ UNCHANGED << pageVars, catalogVars, storeSnapshot, sessionVars, audioVars,
                  cacheVars, now >>

RECURSIVE DropPlaylist(_, _)
DropPlaylist(lists, playlistId) ==
  IF lists = <<>> THEN <<>>
  ELSE IF Head(lists).id # playlistId
       THEN <<Head(lists)>> \o DropPlaylist(Tail(lists), playlistId)
       ELSE DropPlaylist(Tail(lists), playlistId)

deletePlaylist(playlistId) ==
  /\ playlists' = DropPlaylist(playlists, playlistId)
  /\ saveData(likedSongs, playlists')
  /\ result' = Called("deletePlaylist", <<>>, "Deleted")
  /\ ResetProbes
  /\ UNCHANGED << pageVars, catalogVars, likedSongs, storeSnapshot, sessionVars,
                  audioVars, viewVars, workerVars, wakeVars, displayVars, cacheVars, now, error >>

\* Array.prototype.find on the playlists: the index of the first match, 0 if none
FindPlaylist(playlistId) ==
  IF \E i \in 1..Len(playlists) : playlists[i].id = playlistId
  THEN CHOOSE i \in 1..Len(playlists) :
         /\ playlists[i].id = playlistId
         /\ \A j \in 1..(i - 1) : playlists[j].id # playlistId
  ELSE 0

CanAddUnchecked(playlistId, songId) ==
  /\ FindPlaylist(playlistId) # 0
  /\ InCatalog(songId)

\* addToPlaylist: the condition under which the id is pushed
CanAdd(playlistId, songId) ==
  /\ FindPlaylist(playlistId) # 0
  /\ InCatalog(songId)
  /\ songId \notin Range(playlists[FindPlaylist(playlistId)].songs)

\* addToPlaylist: the first conjunct of its condition that fails
AddRefusal(playlistId, songId) ==
  IF FindPlaylist(playlistId) = 0 THEN "NoPlaylist"
  ELSE IF ~InCatalog(songId) THEN "NoSong"
  ELSE "AlreadyPresent"

addToPlaylist(playlistId, songId) ==
  /\ ResetProbes
  /\ IF CanAdd(playlistId, songId)
     THEN /\ playlists' =
               [playlists EXCEPT ![FindPlaylist(playlistId)].songs = Append(@, songId)]
          /\ saveData(likedSongs, playlists')
          /\ result' = Called("addToPlaylist", <<>>, "Added")
          /\ UNCHANGED likedSongs
     ELSE /\ result' = Called("addToPlaylist", <<>>, AddRefusal(playlistId, songId))
          /\ UNCHANGED libraryVars
  /\ UNCHANGED << pageVars, catalogVars, storeSnapshot, sessionVars, audioVars,
                  viewVars, workerVars, wakeVars, displayVars, cacheVars, now, error >>

removeFromPlaylist(playlistId, songId) ==
  /\ ResetProbes
  /\ IF FindPlaylist(playlistId) # 0 /\ InCatalog(songId)
     THEN /\ playlists' =
               [playlists EXCEPT ![FindPlaylist(playlistId)].songs = Without(@, songId)]
          /\ saveData(likedSongs, playlists')
          /\ result' = Called("removeFromPlaylist", <<>>, "Removed")
          /\ UNCHANGED likedSongs
     ELSE /\ result' = Called("removeFromPlaylist", <<>>, "NotRemoved")
          /\ UNCHANGED libraryVars
  /\ UNCHANGED << pageVars, catalogVars, storeSnapshot, sessionVars, audioVars,
                  viewVars, workerVars, wakeVars, displayVars, cacheVars, now, error >>

\* ------------------------------------------------------ the screen wake lock
\* Number of wake lock promises that may be unsettled at once, and of locks
\* the platform may hold at once.
MaxWakeLocks == 2

\* this.wakeLock = null
NoLock == 0

\* The lock objects navigator.wakeLock.request may resolve with
LockIds == 1..MaxWakeLocks

\* The wake lock on a platform without navigator.wakeLock: every test of
\* 'wakeLock' in navigator fails and this.wakeLock stays null.
\*   supported   'wakeLock' in navigator
\*   visible     document.visibilityState === 'visible'
\*   ref         this.wakeLock (NoLock for null)
\*   held        the locks the platform holds for the page
\*   releasing   release() promises of releaseWakeLock not yet settled
\*   awaiting    release() promises that requestWakeLock awaits
\*   requesting  navigator.wakeLock.request promises not yet settled
NoWakeLock ==
  [supported |-> FALSE, visible |-> TRUE, ref |-> NoLock, held |-> {},
   releasing |-> 0, awaiting |-> 0, requesting |-> 0]

\* The same on a platform that has navigator.wakeLock
SupportedWakeLock == [NoWakeLock EXCEPT !.supported = TRUE]

\* The promises of the wake lock that are not settled
WakeLockPromises(w) == w.releasing + w.awaiting + w.requesting

\* requestWakeLock up to its first await: the lock this.wakeLock refers to
\* is released and its promise awaited, or the request is made at once
RequestWakeLock(w) ==
  IF ~w.supported THEN w
  ELSE IF w.ref # NoLock
       THEN [w EXCEPT !.held = @ \ {w.ref}, !.awaiting = @ + 1]
       ELSE [w EXCEPT !.requesting = @ + 1]

\* releaseWakeLock: release() is called on the lock this.wakeLock refers to
ReleaseWakeLock(w) ==
  IF w.ref # NoLock
  THEN [w EXCEPT !.held = @ \ {w.ref}, !.releasing = @ + 1]
  ELSE w

\* The visibilitychange listener of setupWakeLock
VisibilityListener(w) ==
  IF w.supported /\ w.ref # NoLock /\ w.visible THEN RequestWakeLock(w) ELSE w

\* ------------------------------------------------- the state at construction
\* The constructor: the library is read from the durable store, nothing plays.
PageConstructed(liked, lists, snapshot, published) ==
  /\ songs = <<>>
  /\ filteredSongs = <<>>
  /\ songsLoaded = FALSE
  /\ loadState = "pending"
  /\ likedSongs = liked
  /\ playlists = lists
  /\ storeLiked = liked
  /\ storePlaylists = lists
  /\ storeSnapshot = snapshot
  /\ currentSong = NoSong
  /\ currentPlaylist = <<>>
  /\ currentIndex = 0
  /\ isPlaying = FALSE
  /\ currentView = "songs"
  /\ audioSrc = NoSong
  /\ audioPaused = TRUE
  /\ audioEnded = FALSE
  /\ playPromise = "none"
  /\ metadataPending = FALSE
  /\ resumeListeners = <<>>
  /\ pendingEvents = <<>>
  /\ inFlight = <<>>
  /\ tempSongCache = NoSong
  /\ now = 0
  /\ error = "none"
  /\ result = NoCall
  /\ likeProbe = IdleLike
  /\ page = "running"
  /\ focusTimers = 0
  /\ audioTime = 0
  /\ audioError = FALSE
  /\ audioVolume = FullVolume
  /\ playerElements = InitialElements
  /\ mediaSession = published

ConstructedWith(liked, lists, snapshot, published) ==
  /\ PageConstructed(liked, lists, snapshot, published)
  /\ worker = NoWorker
  /\ wakeLock = NoWakeLock

Constructed(liked, lists, snapshot) ==
  ConstructedWith(liked, lists, snapshot, NoPublication)

\* ------------------------------------ the playlists: creation and deletion
InitPlaylists == \E lists \in StoredPlaylistChoices : Constructed(<<>>, lists, NoSnapshot)

NextPlaylists ==
  \/ \E outcome \in LoadOutcomes : LoadSongsDone(outcome)
  \/ Tick
  \/ hideErrorModal
  \/ \E input \in NameInputs : createPlaylist(input)
  \/ \E playlistId \in PlaylistIdInputs : deletePlaylist(playlistId)

SpecPlaylists == InitPlaylists /\ [][NextPlaylists]_vars

\* ------------------------------------------ the songs of the playlists
InitPlaylistSongs == \E lists \in StoredPlaylistChoices : Constructed(<<>>, lists, NoSnapshot)

NextPlaylistSongs ==
  \/ \E outcome \in LoadOutcomes : LoadSongsDone(outcome)
  \/ \E playlistId \in PlaylistIdInputs, songId \in AllIds : addToPlaylist(playlistId, songId)
  \/ \E playlistId \in PlaylistIdInputs, songId \in AllIds : removeFromPlaylist(playlistId, songId)
  \/ \E playlistId \in PlaylistIdInputs : deletePlaylist(playlistId)

SpecPlaylistSongs == InitPlaylistSongs /\ [][NextPlaylistSongs]_vars

\* ------------------------------------------------------- the liked songs
InitLikes == \E liked \in StoredLikedChoices : Constructed(liked, <<>>, NoSnapshot)

NextLikes ==
  \/ \E outcome \in LoadOutcomes : LoadSongsDone(outcome)
  \/ \E songId \in AllIds : toggleSongLike(songId)

SpecLikes == InitLikes /\ [][NextLikes]_vars


\* --------------------------------------------------------------- search
\* What the user may type into the search field
QueryInputs ==
  { <<>>, <<" ">>, <<"l", "o">>, <<"L", "O">>, <<"k">>, <<"b">>, <<"z">> }

\* The filter of handleSearch when only the title is looked at
MatchesTitle(id, query) ==
  includes(toLowerCase(titleOf(id)), toLowerCase(query))

Matches(id, query) ==
  \/ includes(toLowerCase(titleOf(id)), toLowerCase(query))
  \/ includes(toLowerCase(artistOf(id)), toLowerCase(query))

FilterSongs(query) ==
  IF trim(query) = <<>> THEN songs
  ELSE SelectSeqBy(songs, {id \in Range(songs) : Matches(id, query)})

handleSearch(query) ==
  /\ filteredSongs' = FilterSongs(query)
  /\ ResetProbes
  /\ UNCHANGED << pageVars, songs, songsLoaded, loadState, libraryVars, storeSnapshot,
                  sessionVars, audioVars, viewVars, workerVars, wakeVars, displayVars, cacheVars, now, error,
                  result >>

\* ---------------------------------------------------------------- views
\* showPlaylistDetail: the ids of the playlist that the catalog has
PlaylistSongs(i) == SelectSeqBy(playlists[i].songs, Range(songs))

\* The songs that some view lists, each a call of playSong when clicked: the
\* song list (renderSongs), the liked songs (renderLikedSongs) and the detail
\* of a playlist (showPlaylistDetail).  Any view can be opened at any time
\* and opening one changes no other state, so the view opened is not followed.
Clickable ==
  Range(filteredSongs) \cup Range(likedSongs)
    \cup UNION { Range(PlaylistSongs(i)) : i \in 1..Len(playlists) }

\* ------------------------------------------------------ the audio element
AudioNow ==
  [paused |-> audioPaused, ended |-> audioEnded, promise |-> playPromise,
   meta |-> metadataPending, events |-> pendingEvents, time |-> audioTime,
   failed |-> audioError, volume |-> audioVolume]

Task(type, aborted) == [type |-> type, aborted |-> aborted]

\* audio.pause(): when playing, one task fires pause and rejects the pending
\* play promise
AudioPause(a) ==
  IF a.paused THEN a
  ELSE [a EXCEPT !.paused = TRUE, !.promise = "none",
                 !.events = Append(@, Task("pause", a.promise))]

\* audio.src = ...: the element loads the new source from its start; a pending
\* play promise is rejected, no pause event is fired
AudioLoad(a) ==
  [a EXCEPT !.paused = TRUE, !.ended = FALSE, !.promise = "none", !.meta = TRUE,
            !.time = 0, !.failed = FALSE,
            !.events = IF a.promise # "none"
                       THEN Append(@, Task("abort", a.promise)) ELSE @]

\* audio.play(): on an element whose source could not be loaded the promise
\* is rejected and nothing else changes
AudioPlay(a, caller) ==
  IF a.failed
  THEN [a EXCEPT !.events = Append(@, Task("rejected", caller))]
  ELSE IF a.paused
  THEN [a EXCEPT !.paused = FALSE, !.ended = FALSE, !.promise = caller,
                 !.events = Append(@, Task("play", "none"))]
  ELSE [a EXCEPT !.ended = FALSE]

SetAudio(a) ==
  /\ audioPaused' = a.paused
  /\ audioEnded' = a.ended
  /\ playPromise' = a.promise
  /\ metadataPending' = a.meta
  /\ pendingEvents' = a.events
  /\ audioTime' = a.time
  /\ audioError' = a.failed
  /\ audioVolume' = a.volume

\* ------------------------------------------------------ playback controller
\* playSong: the session it leaves, [song, list, index]
SessionAfterPlay(song) ==
  LET list == IF Len(filteredSongs) > 0 THEN filteredSongs ELSE songs
  IN [song |-> song, list |-> list, index |-> FindIndex(list, song)]

SessionNow == [song |-> currentSong, list |-> currentPlaylist, index |-> currentIndex]

\* playSong, called when the audio element is in state a0
PlaySongFrom(song, a0) ==
  LET a == AudioPlay(AudioLoad(AudioPause(a0)), "playSong")
  IN /\ currentSong' = SessionAfterPlay(song).song
     /\ currentPlaylist' = SessionAfterPlay(song).list
     /\ currentIndex' = SessionAfterPlay(song).index
     /\ audioSrc' = song
     /\ SetAudio(a)
     /\ mediaSession' = UpdateMediaSession(mediaSession, song, isPlaying, FALSE, 0)
     /\ UNCHANGED << isPlaying, resumeListeners, pageVars, catalogVars, libraryVars,
                     storeSnapshot, viewVars, workerVars, wakeVars, playerElements, cacheVars, now, error, result >>

\* A click on the element of a song
playSong(song) ==
  /\ song \in Clickable
  /\ PlaySongFrom(song, AudioNow)
  /\ ResetProbes

TogglePlaysOnly ==
  /\ ResetProbes
  /\ IF currentSong = NoSong
     THEN UNCHANGED audioVars
     ELSE /\ SetAudio(AudioPlay(AudioNow, "toggle"))
          /\ UNCHANGED << isPlaying, audioSrc, resumeListeners >>
  /\ UNCHANGED << pageVars, catalogVars, libraryVars, storeSnapshot, sessionVars,
                  viewVars, workerVars, wakeVars, displayVars, cacheVars, now, error, result >>

togglePlayPause ==
  /\ ResetProbes
  /\ IF currentSong = NoSong
     THEN UNCHANGED audioVars
     ELSE LET a == IF audioPaused THEN AudioPlay(AudioNow, "toggle")
                   ELSE AudioPause(AudioNow)
          IN /\ SetAudio(a)
             /\ UNCHANGED << isPlaying, audioSrc, resumeListeners >>
  /\ UNCHANGED << pageVars, catalogVars, libraryVars, storeSnapshot, sessionVars,
                  viewVars, workerVars, wakeVars, displayVars, cacheVars, now, error, result >>

\* nextSong: the index it moves to, in a session with a playlist
NextIndex(session) == JsRem(session.index + 1, Len(session.list))

\* previousSong: the index it moves to, in a session with a playlist
PreviousIndex(session) ==
  JsRem(session.index - 1 + Len(session.list), Len(session.list))

\* nextSong / previousSong, called when the audio element is in state a0
SkipFrom(index, a0) ==
  IF Len(currentPlaylist) = 0
  THEN /\ SetAudio(a0)
       /\ UNCHANGED << sessionVars, audioSrc, isPlaying, resumeListeners,
                       pageVars, catalogVars, libraryVars, storeSnapshot, viewVars, workerVars, wakeVars, displayVars,
                       cacheVars, now, error, result >>
  ELSE PlaySongFrom(currentPlaylist[index + 1], a0)

previousSong ==
  /\ SkipFrom(PreviousIndex(SessionNow), AudioNow)
  /\ ResetProbes

nextSong ==
  /\ SkipFrom(NextIndex(SessionNow), AudioNow)
  /\ ResetProbes

\* The ended event of the audio element: the song played to its end
onEnded ==
  /\ audioSrc # NoSong
  /\ ~audioPaused
  /\ ~audioEnded
  /\ ~metadataPending
  /\ playPromise = "none"
  /\ SkipFrom(NextIndex(SessionNow), [AudioNow EXCEPT !.ended = TRUE])
  /\ ResetProbes

\* ------------------------------------------------------ playback snapshot
\* The snapshots the durable store may hold at startup, saved before the page
\* was opened
StoredSnapshotChoices ==
  { NoSnapshot,
    [NoSnapshot EXCEPT !.present = TRUE, !.songId = 2,
                       !.isPlaying = TRUE, !.timestamp = -1],
    [NoSnapshot EXCEPT !.present = TRUE, !.songId = StaleId,
                       !.isPlaying = TRUE, !.timestamp = -1],
    [NoSnapshot EXCEPT !.present = TRUE, !.songId = 1, !.timestamp = -1] }

\* savePlaybackState, the value written
SavedSnapshot ==
  IF currentSong # NoSong
  THEN [present |-> TRUE, malformed |-> FALSE, songId |-> currentSong,
        currentTime |-> audioTime, isPlaying |-> isPlaying /\ ~audioPaused,
        timestamp |-> now, volume |-> audioVolume]
  ELSE storeSnapshot

\* Window blur, the page hidden or unloaded: savePlaybackState
handleWindowBlur ==
  /\ storeSnapshot' = SavedSnapshot
  /\ ResetProbes
  /\ UNCHANGED << pageVars, catalogVars, libraryVars, sessionVars, audioVars, viewVars, workerVars, wakeVars, displayVars,
                  cacheVars, now, error, result >>

\* The freshness window of the snapshot, in milliseconds
ResumeWindowMs == 300000

SnapshotFreshInclusive ==
  /\ storeSnapshot.present
  /\ ~storeSnapshot.malformed
  /\ now - storeSnapshot.timestamp <= ResumeWindowMs
  /\ storeSnapshot.isPlaying

\* resumePlaybackIfNeeded: a snapshot is stored, it parses, it is younger than
\* the window and it was saved while playing
SnapshotFresh ==
  /\ storeSnapshot.present
  /\ ~storeSnapshot.malformed
  /\ now - storeSnapshot.timestamp < ResumeWindowMs
  /\ storeSnapshot.isPlaying

\* audio.duration is a number: a source is assigned and its metadata are loaded
DurationKnown == audioSrc # NoSong /\ ~metadataPending /\ ~audioError

\* The state that the handleLoadedMetadata closure of a resume keeps
ResumeClosure ==
  [songId |-> storeSnapshot.songId, currentTime |-> storeSnapshot.currentTime]

\* state.volume || 1
RestoredVolume(volume) == IF volume = 0 THEN FullVolume ELSE volume

ResumeWithoutCatalog ==
  IF ~SnapshotFresh
  THEN UNCHANGED << sessionVars, audioVars, mediaSession >>
  ELSE IF currentSong = NoSong \/ currentSong # storeSnapshot.songId
  THEN LET a == [AudioLoad(AudioNow) EXCEPT
                    !.volume = RestoredVolume(storeSnapshot.volume)]
       IN /\ Len(resumeListeners) < MaxListeners
          /\ currentSong' = storeSnapshot.songId
          /\ audioSrc' = storeSnapshot.songId
          /\ SetAudio(a)
          /\ resumeListeners' = Append(resumeListeners, ResumeClosure)
          /\ mediaSession' = UpdateMediaSession(mediaSession, storeSnapshot.songId,
                                                isPlaying, DurationKnown, audioTime)
          /\ UNCHANGED << currentPlaylist, currentIndex, isPlaying >>
  ELSE UNCHANGED << sessionVars, audioVars, mediaSession >>

resumePlaybackIfNeeded ==
  IF ~songsLoaded \/ Len(songs) = 0 \/ ~SnapshotFresh
  THEN UNCHANGED << sessionVars, audioVars, mediaSession >>
  ELSE IF /\ InCatalog(storeSnapshot.songId)
          /\ (currentSong = NoSong \/ currentSong # storeSnapshot.songId)
  THEN LET a == [AudioLoad(AudioNow) EXCEPT
                    !.volume = RestoredVolume(storeSnapshot.volume)]
       IN /\ Len(resumeListeners) < MaxListeners
          /\ currentSong' = storeSnapshot.songId
          /\ audioSrc' = storeSnapshot.songId
          /\ SetAudio(a)
          /\ resumeListeners' = Append(resumeListeners, ResumeClosure)
          /\ mediaSession' = UpdateMediaSession(mediaSession, storeSnapshot.songId,
                                                isPlaying, DurationKnown, audioTime)
          /\ UNCHANGED << currentPlaylist, currentIndex, isPlaying >>
  ELSE IF currentSong # NoSong /\ audioPaused /\ isPlaying
  THEN LET a == AudioPlay(AudioNow, "resume")
       IN /\ SetAudio(a)
          /\ UNCHANGED << sessionVars, isPlaying, audioSrc, resumeListeners,
                          mediaSession >>
  ELSE UNCHANGED << sessionVars, audioVars, mediaSession >>

\* The timer that handleWindowFocus set, once the songs were loaded, fires
focusTimerFires ==
  /\ songsLoaded
  /\ resumePlaybackIfNeeded
  /\ ResetProbes
  /\ UNCHANGED << pageVars, catalogVars, libraryVars, storeSnapshot, viewVars, workerVars, wakeVars, playerElements,
                  cacheVars, now, error, result >>

\* ------------------------------------------- callbacks of the audio element
Larger(a, b) == IF a < b THEN b ELSE a

\* Math.min
Min(a, b) == IF a < b THEN a ELSE b

\* audio.duration, once the metadata of the song are loaded
SongDurations == << 10, 20, 30, 40, 50 >>
DurationOf(id) == SongDurations[id]

\* progress.max = duration and miniProgress.max = duration: a range input
\* whose max is set keeps its value within the max
WithMax(elements, duration) ==
  [e \in DOMAIN elements |-> Min(elements[e], duration)]

\* The loadedmetadata event: the listener of setupAudio, then the listeners
\* that resume installed, which play and remove themselves
onLoadedMetadata ==
  /\ metadataPending
  /\ LET a0 == [AudioNow EXCEPT !.meta = FALSE]
         seek == Min(resumeListeners[Len(resumeListeners)].currentTime,
                     DurationOf(audioSrc))
         a == IF resumeListeners # <<>>
              THEN AudioPlay([a0 EXCEPT !.time = seek], "resume")
              ELSE a0
     IN /\ SetAudio(a)
        /\ playerElements' = WithMax(playerElements, DurationOf(audioSrc))
        /\ mediaSession' = UpdateMediaSession(mediaSession, currentSong, isPlaying,
                                              TRUE, a0.time)
  /\ resumeListeners' = <<>>
  /\ UNCHANGED << pageVars, catalogVars, libraryVars, storeSnapshot, sessionVars,
                  isPlaying, audioSrc, viewVars, workerVars, wakeVars, cacheVars, now, error,
                  result, probeVars >>

\* The pending play promise resolves: playback has started
onPlaybackStarted ==
  /\ playPromise # "none"
  /\ ~audioPaused
  /\ ~metadataPending
  /\ playPromise' = "none"
  /\ storeSnapshot' = IF playPromise = "playSong" THEN SavedSnapshot ELSE storeSnapshot
  /\ UNCHANGED << pageVars, catalogVars, libraryVars, sessionVars, isPlaying, audioSrc,
                  audioPaused, audioEnded, metadataPending, resumeListeners,
                  pendingEvents, audioTime, audioError, audioVolume, viewVars, workerVars, wakeVars, displayVars, cacheVars, now,
                  error, result,
                  probeVars >>

\* The message shown when the play promise of this caller is rejected
RejectionMessage(caller) ==
  CASE caller = "playSong" -> "UnableToPlay"
    [] caller = "toggle" -> "PlaybackFailed"
    [] caller = "playSongAsync" -> "UnableToPlay"
    [] caller = "fallback" -> "PlaybackFailed"
    [] OTHER -> error

\* The oldest queued task of the audio element runs: the play or pause
\* listener of setupAudio, and the catch callback of a rejected play promise
onMediaTask ==
  /\ pendingEvents # <<>>
  /\ LET e == Head(pendingEvents)
     IN /\ pendingEvents' = Tail(pendingEvents)
        /\ isPlaying' = CASE e.type = "play" -> TRUE
                          [] e.type = "pause" -> FALSE
                          [] OTHER -> isPlaying
        /\ error' = RejectionMessage(e.aborted)
        /\ mediaSession' =
             IF e.type \in {"play", "pause"}
             THEN UpdateMediaSession(mediaSession, currentSong, isPlaying',
                                     DurationKnown, audioTime)
             ELSE mediaSession
        /\ wakeLock' = CASE e.type = "play" -> RequestWakeLock(wakeLock)
                         [] e.type = "pause" -> ReleaseWakeLock(wakeLock)
                         [] OTHER -> wakeLock
  /\ UNCHANGED << pageVars, catalogVars, libraryVars, storeSnapshot, sessionVars,
                  audioSrc, audioPaused, audioEnded, playPromise,
                  metadataPending, resumeListeners, audioTime, audioError, audioVolume, viewVars, workerVars, playerElements,
                  cacheVars, now,
                  result, probeVars >>

\* ------------------------------------------ the controller of src/js/app.js
\* What the durable store holds for the liked songs when the controller of
\* the playback is followed
PlaybackLikedChoices == { <<>>, <<StaleId, 2>> }

Init ==
  \E liked \in PlaybackLikedChoices, lists \in StoredPlaylistChoices,
     snapshot \in StoredSnapshotChoices :
    Constructed(liked, lists, snapshot)

\* No task of the audio element is waiting
Quiescent == pendingEvents = <<>>

\* The tasks that a handler queued on the audio element (the play and pause
\* events, the rejection of a play promise) run before the next handler.
Next ==
  \/ onMediaTask
  \/ Quiescent /\ \E outcome \in LoadOutcomes : LoadSongsDone(outcome)
  \/ Quiescent /\ hideErrorModal
  \/ Quiescent /\ \E query \in QueryInputs : handleSearch(query)
  \/ Quiescent /\ \E song \in AllIds : playSong(song)
  \/ Quiescent /\ togglePlayPause
  \/ Quiescent /\ previousSong
  \/ Quiescent /\ nextSong
  \/ Quiescent /\ onEnded
  \/ Quiescent /\ handleWindowBlur
  \/ Quiescent /\ focusTimerFires
  \/ Quiescent /\ onLoadedMetadata
  \/ Quiescent /\ onPlaybackStarted

Spec == Init /\ [][Next]_vars

\* The same controller when the durable store holds no playlist: the songs to
\* click are those of the song list and of the liked songs
InitPlayer ==
  \E liked \in PlaybackLikedChoices, snapshot \in StoredSnapshotChoices :
    Constructed(liked, <<>>, snapshot)

SpecPlayer == InitPlayer /\ [][Next]_vars

\* The search field and the song list: what the user may type, the queries of
\* QueryInputs and some with capitals, a hyphen and a leading space
SearchQueries ==
  QueryInputs \cup { <<"D", "j">>, <<"-", "f">>, <<" ", "l", "o">>, <<"o", "l">>,
                     <<"A">> }

InitSearch == Constructed(<<>>, <<>>, NoSnapshot)

NextSearch ==
  \/ onMediaTask
  \/ Quiescent /\ \E outcome \in LoadOutcomes : LoadSongsDone(outcome)
  \/ Quiescent /\ \E query \in SearchQueries : handleSearch(query)
  \/ Quiescent /\ \E song \in AllIds : playSong(song)
  \/ Quiescent /\ previousSong
  \/ Quiescent /\ nextSong
  \/ Quiescent /\ onLoadedMetadata
  \/ Quiescent /\ onPlaybackStarted

SpecSearch == InitSearch /\ [][NextSearch]_vars

\* ------------------------------------------------- startup and resumption
\* What a key of the durable store may hold when the page is opened: nothing,
\* a text that JSON.parse rejects, or a value that an earlier session saved
RawKinds == {"missing", "malformed", "value"}

\* JSON.parse(localStorage.getItem(key) || "[]") in the constructor
ReadList(kind, value) == IF kind = "value" THEN value ELSE <<>>

\* The playback snapshot holds a text that JSON.parse rejects; no field of it
\* can be read
MalformedSnapshot ==
  [NoSnapshot EXCEPT !.present = TRUE, !.malformed = TRUE, !.songId = 2,
                     !.isPlaying = TRUE]

\* The playback snapshots the store may hold when resumption is followed, saved
\* at the opening of the page or 299000 ms and 300000 ms before it
ResumeSnapshotChoices ==
  { NoSnapshot,
    MalformedSnapshot,
    [NoSnapshot EXCEPT !.present = TRUE, !.songId = 2, !.currentTime = 5,
                       !.isPlaying = TRUE, !.timestamp = -299000],
    [NoSnapshot EXCEPT !.present = TRUE, !.songId = 2, !.currentTime = 5,
                       !.isPlaying = TRUE, !.timestamp = -300000],
    [NoSnapshot EXCEPT !.present = TRUE, !.songId = 1, !.currentTime = 25,
                       !.isPlaying = TRUE],
    [NoSnapshot EXCEPT !.present = TRUE, !.songId = 2, !.currentTime = 5],
    [NoSnapshot EXCEPT !.present = TRUE, !.songId = StaleId,
                       !.isPlaying = TRUE] }

\* The constructor up to its call of setupVisibilityHandlers: it threw when a
\* library key holds malformed text, otherwise the fields are set and
\* loadSongs is not yet called
OpeningOn(likedKind, listsKind, liked, lists, snapshot, platformLock) ==
  /\ page = IF likedKind = "malformed" \/ listsKind = "malformed"
            THEN "threw" ELSE "constructing"
  /\ likedSongs = IF page = "threw" THEN <<>> ELSE ReadList(likedKind, liked)
  /\ playlists = IF page = "threw" THEN <<>> ELSE ReadList(listsKind, lists)
  /\ storeLiked = ReadList(likedKind, liked)
  /\ storePlaylists = ReadList(listsKind, lists)
  /\ storeSnapshot = snapshot
  /\ songs = <<>>
  /\ filteredSongs = <<>>
  /\ songsLoaded = FALSE
  /\ loadState = "none"
  /\ currentSong = NoSong
  /\ currentPlaylist = <<>>
  /\ currentIndex = 0
  /\ isPlaying = FALSE
  /\ currentView = "songs"
  /\ audioSrc = NoSong
  /\ audioPaused = TRUE
  /\ audioEnded = FALSE
  /\ playPromise = "none"
  /\ metadataPending = FALSE
  /\ resumeListeners = <<>>
  /\ pendingEvents = <<>>
  /\ inFlight = <<>>
  /\ tempSongCache = NoSong
  /\ now = 0
  /\ error = "none"
  /\ result = NoCall
  /\ likeProbe = IdleLike
  /\ focusTimers = 0
  /\ audioTime = 0
  /\ audioError = FALSE
  /\ audioVolume = FullVolume
  /\ playerElements = InitialElements
  /\ mediaSession = NoPublication
  /\ worker = NoWorker
  /\ wakeLock = platformLock

\* The constructor on a platform without navigator.wakeLock
Opening(likedKind, listsKind, liked, lists, snapshot) ==
  OpeningOn(likedKind, listsKind, liked, lists, snapshot, NoWakeLock)

\* The rest of the constructor: setupVisibilityHandlers makes the startup call
\* of resumePlaybackIfNeeded, then loadSongs is called
setupVisibilityHandlers ==
  /\ page = "constructing"
  /\ page' = "running"
  /\ resumePlaybackIfNeeded
  /\ loadState' = "pending"
  /\ ResetProbes
  /\ UNCHANGED << focusTimers, songs, filteredSongs, songsLoaded, libraryVars,
                  storeSnapshot, viewVars, workerVars, wakeVars, playerElements, cacheVars, now, error, result >>

\* Window focus, or the page becoming visible: once the songs are loaded a
\* timer of 100 ms is set
handleWindowFocus ==
  /\ page = "running"
  /\ IF songsLoaded
     THEN /\ focusTimers < MaxTimers
          /\ focusTimers' = focusTimers + 1
     ELSE UNCHANGED focusTimers
  /\ ResetProbes
  /\ UNCHANGED << page, catalogVars, libraryVars, storeSnapshot, sessionVars,
                  audioVars, viewVars, workerVars, wakeVars, displayVars, cacheVars, now, error, result >>

\* A timer of handleWindowFocus fires
onFocusTimer ==
  /\ focusTimers > 0
  /\ focusTimers' = focusTimers - 1
  /\ resumePlaybackIfNeeded
  /\ wakeLock' = IF isPlaying /\ currentSong' # NoSong
                 THEN RequestWakeLock(wakeLock)
                 ELSE wakeLock
  /\ ResetProbes
  /\ UNCHANGED << page, catalogVars, libraryVars, storeSnapshot, viewVars, workerVars, playerElements,
                  cacheVars, now, error, result >>

InitResume ==
  \E likedKind \in RawKinds, listsKind \in RawKinds,
     snapshot \in ResumeSnapshotChoices :
    Opening(likedKind, listsKind, <<>>, <<>>, snapshot)

Running == page = "running" /\ Quiescent

NextResume ==
  \/ setupVisibilityHandlers
  \/ onMediaTask
  \/ Quiescent /\ \E outcome \in LoadOutcomes : LoadSongsDone(outcome)
  \/ Quiescent /\ Tick
  \/ Running /\ handleWindowFocus
  \/ Running /\ onFocusTimer
  \/ Running /\ handleWindowBlur
  \/ Running /\ \E song \in AllIds : playSong(song)
  \/ Running /\ togglePlayPause
  \/ Running /\ onLoadedMetadata
  \/ Running /\ onPlaybackStarted

SpecResume == InitResume /\ [][NextResume]_vars

\* ------------------------------------------------ the volume and the resume
\* The values of the volume slider that are followed: 0, 0.5 and 1
VolumeLevels == {0, 50, FullVolume}

\* The input listener of the volume slider
setVolume(value) ==
  /\ audioVolume' = value
  /\ ResetProbes
  /\ UNCHANGED << pageVars, catalogVars, libraryVars, storeSnapshot, sessionVars,
                  isPlaying, audioSrc, audioPaused, audioEnded, playPromise,
                  metadataPending, resumeListeners, pendingEvents, audioTime,
                  audioError, viewVars, workerVars, wakeVars, displayVars, cacheVars, now,
                  error, result >>

\* The snapshots of song 2 that an earlier session saved while playing, at
\* the opening of the page, one for each volume
VolumeSnapshotChoices ==
  { [NoSnapshot EXCEPT !.present = TRUE, !.songId = 2, !.currentTime = 5,
                       !.isPlaying = TRUE, !.volume = volume] :
      volume \in VolumeLevels }

InitVolume ==
  \E snapshot \in VolumeSnapshotChoices :
    Opening("missing", "missing", <<>>, <<>>, snapshot)

NextVolume ==
  \/ setupVisibilityHandlers
  \/ onMediaTask
  \/ Quiescent /\ \E outcome \in LoadOutcomes : LoadSongsDone(outcome)
  \/ Running /\ handleWindowFocus
  \/ Running /\ onFocusTimer
  \/ Running /\ handleWindowBlur
  \/ Running /\ \E song \in AllIds : playSong(song)
  \/ Running /\ togglePlayPause
  \/ Running /\ onLoadedMetadata
  \/ Running /\ onPlaybackStarted
  \/ Running /\ \E value \in VolumeLevels : setVolume(value)

SpecVolume == InitVolume /\ [][NextVolume]_vars

\* ----------------------------------- startup with no focus event to come
\* The page is opened and the window never gets focus nor becomes visible
\* again: the constructor, the catalog load and the handlers of the user.
NextStartup ==
  \/ setupVisibilityHandlers
  \/ onMediaTask
  \/ Quiescent /\ \E outcome \in LoadOutcomes : LoadSongsDone(outcome)
  \/ Quiescent /\ Tick
  \/ Running /\ handleWindowBlur
  \/ Running /\ \E song \in AllIds : playSong(song)
  \/ Running /\ togglePlayPause
  \/ Running /\ onLoadedMetadata
  \/ Running /\ onPlaybackStarted

\* The constructor runs to its end, the fetch of songs.json settles and the
\* queued tasks of the audio element run; the user and the clock need not act.
SpecStartup ==
  /\ InitResume
  /\ [][NextStartup]_vars
  /\ WF_vars(setupVisibilityHandlers)
  /\ WF_vars(Quiescent /\ \E outcome \in LoadOutcomes : LoadSongsDone(outcome))
  /\ WF_vars(onMediaTask)

\* ------------------------- the caching controller of src/unnamed/part_001
\* async playSong of the caching variant, up to its first await: the session
\* is set at once; the source is set at once only when grooveTempSongCache
\* holds this song, otherwise the call waits for fetch(song.audioSrc)
Acquisition(song, stage) == [song |-> song, stage |-> stage]

playSongAsync(song) ==
  /\ song \in Clickable
  /\ currentSong' = SessionAfterPlay(song).song
  /\ currentPlaylist' = SessionAfterPlay(song).list
  /\ currentIndex' = SessionAfterPlay(song).index
  /\ IF tempSongCache = song
     THEN /\ audioSrc' = song
          /\ SetAudio(AudioPlay(AudioLoad(AudioNow), "playSongAsync"))
          /\ UNCHANGED inFlight
          /\ mediaSession' = UpdateMediaSession(mediaSession, song, isPlaying, FALSE, 0)
     ELSE /\ Len(inFlight) < MaxInFlight
          /\ inFlight' = Append(inFlight, Acquisition(song, "fetch"))
          /\ SetAudio(AudioNow)
          /\ UNCHANGED << audioSrc, mediaSession >>
  /\ ResetProbes
  /\ UNCHANGED << isPlaying, resumeListeners, pageVars, catalogVars, libraryVars,
                  storeSnapshot, viewVars, workerVars, wakeVars, playerElements, tempSongCache, now, error, result >>

RemoveAt(s, i) == SubSeq(s, 1, i - 1) \o SubSeq(s, i + 1, Len(s))

\* The catch block of the caching playSong: the error is shown and the audio
\* element is pointed at song.audioSrc
AcquisitionFailed(i) ==
  /\ error' = "FailedToLoad"
  /\ audioSrc' = inFlight[i].song
  /\ SetAudio(AudioPlay(AudioLoad(AudioNow), "fallback"))
  /\ inFlight' = RemoveAt(inFlight, i)
  /\ UNCHANGED tempSongCache
  /\ mediaSession' = UpdateMediaSession(mediaSession, currentSong, isPlaying, FALSE, 0)

\* fetch(song.audioSrc) settles for the i-th waiting call
fetchSettles(i, ok) ==
  /\ inFlight[i].stage = "fetch"
  /\ IF ok
     THEN /\ inFlight' = [inFlight EXCEPT ![i].stage = "blob"]
          /\ SetAudio(AudioNow)
          /\ UNCHANGED << audioSrc, tempSongCache, error, mediaSession >>
     ELSE AcquisitionFailed(i)
  /\ ResetProbes
  /\ UNCHANGED << isPlaying, resumeListeners, pageVars, catalogVars, libraryVars,
                  storeSnapshot, sessionVars, viewVars, workerVars, wakeVars, playerElements, now, result >>

\* response.blob() settles for the i-th waiting call: the object URL is
\* stored in grooveTempSongCache and becomes the source of the audio element
blobSettles(i, ok) ==
  /\ inFlight[i].stage = "blob"
  /\ IF ok
     THEN /\ tempSongCache' = inFlight[i].song
          /\ audioSrc' = inFlight[i].song
          /\ SetAudio(AudioPlay(AudioLoad(AudioNow), "playSongAsync"))
          /\ inFlight' = RemoveAt(inFlight, i)
          /\ UNCHANGED error
          /\ mediaSession' = UpdateMediaSession(mediaSession, currentSong, isPlaying, FALSE, 0)
     ELSE AcquisitionFailed(i)
  /\ ResetProbes
  /\ UNCHANGED << isPlaying, resumeListeners, pageVars, catalogVars, libraryVars,
                  storeSnapshot, sessionVars, viewVars, workerVars, wakeVars, playerElements, now, result >>

InitCache == Constructed(<<>>, <<>>, NoSnapshot)

NextCache ==
  \/ onMediaTask
  \/ Quiescent /\ \E outcome \in LoadOutcomes : LoadSongsDone(outcome)
  \/ Quiescent /\ \E song \in AllIds : playSongAsync(song)
  \/ Quiescent /\ \E i \in 1..Len(inFlight), ok \in BOOLEAN : fetchSettles(i, ok)
  \/ Quiescent /\ \E i \in 1..Len(inFlight), ok \in BOOLEAN : blobSettles(i, ok)
  \/ Quiescent /\ onLoadedMetadata
  \/ Quiescent /\ onPlaybackStarted

SpecCache == InitCache /\ [][NextCache]_vars

\* ------------------------------------------------- failures of the playback
\* The message shown when play() of this caller is refused because the
\* platform blocks autoplay (NotAllowedError)
BlockedMessage(caller) ==
  CASE caller = "playSong" -> "TapToPlay"
    [] caller = "toggle" -> "PlaybackFailed"
    [] caller = "playSongAsync" -> "UnableToPlay"
    [] caller = "fallback" -> "PlaybackFailed"
    [] OTHER -> error

\* The platform did not allow the last call of play(): the element stayed
\* paused, no play event is fired, and the promise is rejected with
\* NotAllowedError.  Whether the call was allowed is drawn when its first
\* task is due: no handler runs between the call and that task.
onPlayBlocked ==
  /\ pendingEvents # <<>>
  /\ Head(pendingEvents).type = "play"
  /\ playPromise # "none"
  /\ pendingEvents' = Tail(pendingEvents)
  /\ audioPaused' = TRUE
  /\ playPromise' = "none"
  /\ error' = BlockedMessage(playPromise)
  /\ UNCHANGED << pageVars, catalogVars, libraryVars, storeSnapshot, sessionVars,
                  isPlaying, audioSrc, audioEnded, metadataPending,
                  resumeListeners, audioTime, audioError, audioVolume, viewVars, workerVars, wakeVars, displayVars, cacheVars,
                  now, result, probeVars >>

\* The source of the audio element cannot be fetched or decoded: the error
\* listener of setupAudio shows its message, then the pending play promise is
\* rejected.  The element stays as play() left it (paused is not set).
onSourceFailed ==
  /\ audioSrc # NoSong
  /\ metadataPending
  /\ metadataPending' = FALSE
  /\ audioError' = TRUE
  /\ error' = "FailedToLoad"
  /\ playPromise' = "none"
  /\ pendingEvents' = IF playPromise # "none"
                      THEN Append(pendingEvents, Task("rejected", playPromise))
                      ELSE pendingEvents
  /\ UNCHANGED << pageVars, catalogVars, libraryVars, storeSnapshot, sessionVars,
                  isPlaying, audioSrc, audioPaused, audioEnded, resumeListeners,
                  audioTime, audioVolume, viewVars, workerVars, wakeVars, displayVars, cacheVars, now,
                  result, probeVars >>

\* The controller of src/js/app.js with the failures of the audio element
InitFailures ==
  \E snapshot \in ResumeSnapshotChoices :
    Opening("missing", "missing", <<>>, <<>>, snapshot)

NextFailures ==
  \/ setupVisibilityHandlers
  \/ onMediaTask
  \/ onPlayBlocked
  \/ Quiescent /\ \E outcome \in LoadOutcomes : LoadSongsDone(outcome)
  \/ Quiescent /\ hideErrorModal
  \/ Running /\ handleWindowFocus
  \/ Running /\ onFocusTimer
  \/ Running /\ \E song \in AllIds : playSong(song)
  \/ Running /\ togglePlayPause
  \/ Running /\ nextSong
  \/ Running /\ onLoadedMetadata
  \/ Running /\ onPlaybackStarted
  \/ Running /\ onSourceFailed

SpecFailures == InitFailures /\ [][NextFailures]_vars

\* The caching controller with the failures of the audio element
NextCacheFailures ==
  \/ onMediaTask
  \/ onPlayBlocked
  \/ Quiescent /\ \E outcome \in LoadOutcomes : LoadSongsDone(outcome)
  \/ Quiescent /\ hideErrorModal
  \/ Quiescent /\ \E song \in AllIds : playSongAsync(song)
  \/ Quiescent /\ \E i \in 1..Len(inFlight), ok \in BOOLEAN : fetchSettles(i, ok)
  \/ Quiescent /\ \E i \in 1..Len(inFlight), ok \in BOOLEAN : blobSettles(i, ok)
  \/ Quiescent /\ onLoadedMetadata
  \/ Quiescent /\ onPlaybackStarted
  \/ Quiescent /\ onSourceFailed

SpecCacheFailures == InitCache /\ [][NextCacheFailures]_vars

\* ------------------------------------------------ progress and seeking
\* The positions, in seconds, that a slider is dragged to or a platform seek
\* command asks for; none exceeds the duration of a song
SeekTargets == {0, 5, 10}

\* The positions at which a timeupdate event is fired while a song plays
PlaybackTimes == {4, 7}

\* updateProgress: with a playing element whose duration is known, both
\* sliders take the position of the audio element
UpdateProgress(elements, paused, durationKnown, time) ==
  IF paused \/ ~durationKnown THEN elements
  ELSE [progress |-> time, miniProgress |-> time]

\* The timeupdate event: the playback has advanced
onTimeUpdate ==
  /\ DurationKnown
  /\ ~audioPaused
  /\ \E t \in PlaybackTimes :
       /\ t > audioTime
       /\ t <= DurationOf(audioSrc)
       /\ audioTime' = t
       /\ playerElements' = UpdateProgress(playerElements, audioPaused, TRUE, t)
       /\ mediaSession' = UpdateMediaSession(mediaSession, currentSong, isPlaying,
                                             TRUE, t)
  /\ ResetProbes
  /\ UNCHANGED << pageVars, catalogVars, libraryVars, storeSnapshot, sessionVars,
                  isPlaying, audioSrc, audioPaused, audioEnded, playPromise,
                  metadataPending, resumeListeners, pendingEvents, audioError, audioVolume,
                  viewVars, workerVars, wakeVars, cacheVars, now, error, result >>

\* The elements that carry an input listener calling seek
Sliders == {"progress", "miniProgress"}

SeekWritesOwnSlider(slider, time) ==
  /\ slider \in DOMAIN playerElements
  /\ audioSrc # NoSong
  /\ audioTime' = time
  /\ playerElements' = [playerElements EXCEPT ![slider] = time]
  /\ mediaSession' = UpdateMediaSession(mediaSession, currentSong, isPlaying,
                                        DurationKnown, time)
  /\ ResetProbes
  /\ UNCHANGED << pageVars, catalogVars, libraryVars, storeSnapshot, sessionVars,
                  isPlaying, audioSrc, audioPaused, audioEnded, playPromise,
                  metadataPending, resumeListeners, pendingEvents, audioError, audioVolume,
                  viewVars, workerVars, wakeVars, cacheVars, now, error, result >>

\* seek(event): the slider of the event was dragged to time
seek(slider, time) ==
  /\ slider \in DOMAIN playerElements
  /\ audioSrc # NoSong
  /\ audioTime' = time
  /\ playerElements' = [progress |-> time, miniProgress |-> time]
  /\ mediaSession' = UpdateMediaSession(mediaSession, currentSong, isPlaying,
                                        DurationKnown, time)
  /\ ResetProbes
  /\ UNCHANGED << pageVars, catalogVars, libraryVars, storeSnapshot, sessionVars,
                  isPlaying, audioSrc, audioPaused, audioEnded, playPromise,
                  metadataPending, resumeListeners, pendingEvents, audioError, audioVolume,
                  viewVars, workerVars, wakeVars, cacheVars, now, error, result >>

\* The seekto handler of setupMediaSession: a platform seek command
mediaSeekTo(seekTime) ==
  /\ audioSrc # NoSong
  /\ IF seekTime # 0
     THEN /\ audioTime' = seekTime
          /\ playerElements' =
               UpdateProgress(playerElements, audioPaused, DurationKnown, seekTime)
     ELSE UNCHANGED << audioTime, playerElements >>
  /\ ResetProbes
  /\ UNCHANGED << pageVars, catalogVars, libraryVars, storeSnapshot, sessionVars,
                  isPlaying, audioSrc, audioPaused, audioEnded, playPromise,
                  metadataPending, resumeListeners, pendingEvents, audioError, audioVolume,
                  viewVars, workerVars, wakeVars, mediaSession, cacheVars, now, error, result >>

InitProgress == ConstructedWith(<<>>, <<>>, NoSnapshot, FollowedPosition)

\* The commands of the platform that the play and pause handlers of
\* setupMediaSession take
MediaActions == {"play", "pause"}

\* The play handler and the pause handler of navigator.mediaSession: each
\* calls togglePlayPause
mediaAction(action) ==
  /\ action \in MediaActions
  /\ togglePlayPause

NextProgress ==
  \/ onMediaTask
  \/ Quiescent /\ \E outcome \in LoadOutcomes : LoadSongsDone(outcome)
  \/ Quiescent /\ \E song \in AllIds : playSong(song)
  \/ Quiescent /\ togglePlayPause
  \/ Quiescent /\ onLoadedMetadata
  \/ Quiescent /\ onPlaybackStarted
  \/ Quiescent /\ onTimeUpdate
  \/ Quiescent /\ \E slider \in Sliders, time \in SeekTargets : seek(slider, time)
  \/ Quiescent /\ \E seekTime \in SeekTargets : mediaSeekTo(seekTime)
  \/ Quiescent /\ \E action \in MediaActions : mediaAction(action)

SpecProgress == InitProgress /\ [][NextProgress]_vars

\* ----------------------------------------- the library and the page reload
\* The page is closed and opened again: beforeunload saves the playback
\* snapshot, then the constructor reads the library from the durable store
reloadPage ==
  /\ likedSongs' = storeLiked
  /\ playlists' = storePlaylists
  /\ storeSnapshot' = SavedSnapshot
  /\ songs' = <<>>
  /\ filteredSongs' = <<>>
  /\ songsLoaded' = FALSE
  /\ loadState' = "pending"
  /\ currentSong' = NoSong
  /\ currentPlaylist' = <<>>
  /\ currentIndex' = 0
  /\ isPlaying' = FALSE
  /\ currentView' = "songs"
  /\ audioSrc' = NoSong
  /\ audioPaused' = TRUE
  /\ audioEnded' = FALSE
  /\ playPromise' = "none"
  /\ metadataPending' = FALSE
  /\ resumeListeners' = <<>>
  /\ pendingEvents' = <<>>
  /\ inFlight' = <<>>
  /\ page' = "running"
  /\ focusTimers' = 0
  /\ audioTime' = 0
  /\ audioError' = FALSE
  /\ audioVolume' = FullVolume
  /\ playerElements' = InitialElements
  /\ mediaSession' = NoPublication
  /\ error' = "none"
  /\ result' = Called("reloadPage", <<>>, "Constructed")
  /\ ResetProbes
  /\ wakeLock' = [NoWakeLock EXCEPT !.supported = wakeLock.supported]
  /\ UNCHANGED << storeLiked, storePlaylists, tempSongCache, now, workerVars >>

\* The names typed when the whole library is followed
LibraryNameInputs == { <<" ">>, <<"a">>, <<"A", " ">> }

\* The songs whose buttons are pressed when the whole library is followed
LibrarySongInputs == { 1, 2, StaleId }

InitLibrary ==
  \E liked \in PlaybackLikedChoices, lists \in StoredPlaylistChoices :
    Constructed(liked, lists, NoSnapshot)

NextLibrary ==
  \/ \E outcome \in LoadOutcomes : LoadSongsDone(outcome)
  \/ \E songId \in LibrarySongInputs : toggleSongLike(songId)
  \/ \E input \in LibraryNameInputs : createPlaylist(input)
  \/ \E playlistId \in PlaylistIdInputs : deletePlaylist(playlistId)
  \/ \E playlistId \in PlaylistIdInputs, songId \in LibrarySongInputs :
       addToPlaylist(playlistId, songId)
  \/ \E playlistId \in PlaylistIdInputs, songId \in LibrarySongInputs :
       removeFromPlaylist(playlistId, songId)
  \/ reloadPage

SpecLibrary == InitLibrary /\ [][NextLibrary]_vars

\* ================================================================== claims
\* The current song is the entry of the current playlist at the current index
SessionConsistent ==
  /\ currentIndex \in 0..(Len(currentPlaylist) - 1)
  /\ currentPlaylist[currentIndex + 1] = currentSong

\* C1: in every state between handlers in which there is a current song,
\* currentIndex is a valid index of currentPlaylist and the song at that
\* index is the current song.
C1_CurrentSongAtCurrentIndex == currentSong # NoSong => SessionConsistent

\* C2: the acquisition of a playSong call that a later playSong call has
\* superseded never changes the source of the audio element (nor the current
\* song) when it completes, whether it succeeds or fails.
C2_SupersededAcquisitionDiscarded ==
  [][\A i \in 1..Len(inFlight), ok \in BOOLEAN :
       ( /\ fetchSettles(i, ok) \/ blobSettles(i, ok)
         /\ inFlight[i].song # currentSong )
       => /\ audioSrc' = audioSrc
          /\ currentSong' = currentSong]_vars

\* C3: with a playlist of n > 0 songs and the current song at index i,
\* nextSong leaves currentIndex = (i + 1) mod n and previousSong leaves
\* currentIndex = (i - 1 + n) mod n, and the song of the playlist at that
\* index becomes the current song.
MovedTo(index) ==
  /\ currentIndex' = index
  /\ currentSong' = currentPlaylist[index + 1]

C3_SkipMovesAlongRing ==
  [][/\ (nextSong /\ SessionConsistent)
          => MovedTo((currentIndex + 1) % Len(currentPlaylist))
     /\ (previousSong /\ SessionConsistent)
          => MovedTo((currentIndex - 1 + Len(currentPlaylist)) % Len(currentPlaylist))]_vars

\* The session that nextSong (forward) or previousSong leaves, as the two
\* handlers compute it
SessionAfterSkip(session, forward) ==
  IF Len(session.list) = 0 THEN session
  ELSE SessionAfterPlay(session.list[
         (IF forward THEN NextIndex(session) ELSE PreviousIndex(session)) + 1])

RECURSIVE SkipTimes(_, _, _)
SkipTimes(session, forward, k) ==
  IF k = 0 THEN session
  ELSE SkipTimes(SessionAfterSkip(session, forward), forward, k - 1)

\* nextSong and previousSong leave the session that SessionAfterSkip computes
SkipLeavesSessionAfterSkip ==
  [][/\ nextSong => SessionNow' = SessionAfterSkip(SessionNow, TRUE)
     /\ previousSong => SessionNow' = SessionAfterSkip(SessionNow, FALSE)]_vars

\* C4: with the current song at its index in a playlist of n songs, n calls
\* of nextSong in a row, and also n calls of previousSong in a row, bring
\* currentIndex back to the value it had.
C4_RingReturnsToStart ==
  (currentSong # NoSong /\ SessionConsistent) =>
    \A forward \in BOOLEAN :
      SkipTimes(SessionNow, forward, Len(currentPlaylist)).index = currentIndex

\* The song after the current song in the current playlist, the first song
\* following the last
RingSuccessor ==
  currentPlaylist[JsRem(FindIndex(currentPlaylist, currentSong) + 1,
                        Len(currentPlaylist)) + 1]

\* C5: when the current song plays to its end, the song after it in the ring
\* of the current playlist becomes the current song and starts playing, in
\* every state that has a current song.
C5_EndedPlaysRingSuccessor ==
  [][(onEnded /\ currentSong # NoSong)
       => /\ currentSong \in Range(currentPlaylist)
          /\ currentSong' = RingSuccessor
          /\ audioSrc' = RingSuccessor
          /\ ~audioPaused']_vars

\* The ended event from a state in which the current song is at the current
\* index of the current playlist
EndedFromConsistentSession ==
  [][(onEnded /\ currentSong # NoSong /\ SessionConsistent)
       => /\ currentSong' = RingSuccessor
          /\ audioSrc' = RingSuccessor
          /\ ~audioPaused']_vars

HasPlaylist(playlistId) == \E i \in 1..Len(playlists) : playlists[i].id = playlistId

SongsOf(playlistId) == playlists[FindPlaylist(playlistId)].songs

\* C6: no playlist's song-id list holds an id twice, whatever addToPlaylist
\* and removeFromPlaylist calls were made; and an addToPlaylist call changes
\* no playlist and nothing in the store unless the playlist exists, the
\* song is in the catalog and the id is not yet in the playlist.
NoDuplicateSongIds == \A i \in 1..Len(playlists) : NoDup(playlists[i].songs)

C6_AddToPlaylistNoDuplicates ==
  /\ []NoDuplicateSongIds
  /\ [][\A playlistId \in PlaylistIdInputs, songId \in AllIds :
          ( /\ addToPlaylist(playlistId, songId)
            /\ ~( /\ HasPlaylist(playlistId)
                  /\ songId \in Range(songs)
                  /\ songId \notin Range(SongsOf(playlistId)) ) )
          => UNCHANGED << playlists, storePlaylists >>]_vars

C6_Witness ==
  /\ result.op = "addToPlaylist"
  /\ result.path = "AlreadyPresent"
  /\ \A i \in 1..Len(playlists) : Len(playlists[i].songs) >= 2
  /\ Len(playlists) >= 2

\* C7: a createPlaylist call whose trimmed name equals, letter case aside,
\* the name of a stored playlist fails with the DuplicateName error and
\* leaves the playlists and the store as they were; and no two stored
\* playlists ever have names that are equal letter case aside.
NoCaseInsensitiveDuplicateNames ==
  \A i, j \in 1..Len(playlists) :
    i # j => toLowerCase(playlists[i].name) # toLowerCase(playlists[j].name)

C7_CreatePlaylistRejectsDuplicates ==
  /\ []NoCaseInsensitiveDuplicateNames
  /\ [][\A input \in NameInputs :
          ( /\ createPlaylist(input)
            /\ trim(input) # <<>>
            /\ \E i \in 1..Len(playlists) :
                 toLowerCase(playlists[i].name) = toLowerCase(trim(input)) )
          => /\ UNCHANGED << playlists, storePlaylists >>
             /\ error' = "DuplicateName"]_vars

C7_Witness ==
  /\ result.op = "createPlaylist"
  /\ result.path = "DuplicateName"
  /\ error = "DuplicateName"
  /\ \E i \in 1..Len(playlists) :
       /\ playlists[i].name # trim(result.args)
       /\ toLowerCase(playlists[i].name) = toLowerCase(trim(result.args))

\* C8: a createPlaylist call whose name is empty once trimmed takes the
\* EmptyName path and changes neither the playlists nor the durable store.
C8_CreatePlaylistRejectsEmptyName ==
  [][\A input \in NameInputs :
       (createPlaylist(input) /\ trim(input) = <<>>)
       => /\ result'.path = "EmptyName"
          /\ UNCHANGED << playlists, likedSongs, storePlaylists, storeLiked >>]_vars

C8_Witness ==
  /\ result.op = "createPlaylist"
  /\ result.path = "EmptyName"
  /\ result.args = <<" ", " ">>
  /\ playlists # <<>>

\* C9: the ids of the stored playlists are pairwise distinct, whenever the
\* creations happen (two of them within one reading of the clock included),
\* and a deletePlaylist call removes at most one playlist.
C9_PlaylistIdsDistinct ==
  \A i, j \in 1..Len(playlists) : i # j => playlists[i].id # playlists[j].id

\* C10: two toggleSongLike calls in a row on one song id restore whether the
\* id is liked, and leave the other liked songs in their order.
C10_ToggleLikeTwiceRestores ==
  likeProbe.k = 2 =>
    /\ (likeProbe.id \in Range(likedSongs)) = (likeProbe.id \in Range(likeProbe.before))
    /\ Without(likedSongs, likeProbe.id) = Without(likeProbe.before, likeProbe.id)

C10_Witness ==
  /\ likeProbe.k = 2
  /\ likeProbe.id \in Range(likeProbe.before)
  /\ likedSongs # likeProbe.before
  /\ Len(likedSongs) >= 3

\* C11: a toggleSongLike call on an id that is among the liked songs, whether
\* liked in this session or read from the durable store, removes it and
\* saves; on an id that is not liked it appends the song and saves when the
\* id is in the catalog, and changes nothing otherwise.
C11_ToggleLikeRemovesEveryLikedId ==
  [][\A songId \in AllIds :
       toggleSongLike(songId) =>
         IF songId \in Range(likedSongs)
         THEN /\ likedSongs' = Without(likedSongs, songId)
              /\ storeLiked' = likedSongs'
         ELSE IF InCatalog(songId)
         THEN /\ likedSongs' = Append(likedSongs, songId)
              /\ storeLiked' = likedSongs'
         ELSE UNCHANGED libraryVars]_vars

\* C12: a removeFromPlaylist call removes the song id from the playlist
\* whenever the playlist holds it, the ids whose song the catalog does not
\* have included, and otherwise changes no playlist.
C12_RemoveFromPlaylistRemovesPresentId ==
  [][\A playlistId \in PlaylistIdInputs, songId \in AllIds :
       removeFromPlaylist(playlistId, songId) =>
         IF HasPlaylist(playlistId) /\ songId \in Range(SongsOf(playlistId))
         THEN playlists' =
                [playlists EXCEPT ![FindPlaylist(playlistId)].songs = Without(@, songId)]
         ELSE UNCHANGED playlists]_vars

\* C13: between handlers the liked songs and the playlists of the durable
\* store equal those in memory, whichever of toggleSongLike, createPlaylist,
\* deletePlaylist, addToPlaylist and removeFromPlaylist were called; and a
\* reload of the page leaves the same liked songs and the same playlists.
StoreMatchesMemory ==
  /\ storeLiked = likedSongs
  /\ storePlaylists = playlists

C13_StoreEqualsLibrary ==
  /\ []StoreMatchesMemory
  /\ [][reloadPage => /\ likedSongs' = likedSongs
                      /\ playlists' = playlists]_vars

C13_Witness ==
  /\ result.op = "reloadPage"
  /\ likedSongs # <<>>
  /\ \E i \in 1..Len(playlists) :
       /\ playlists[i].id = 0
       /\ playlists[i].songs # <<>>
  /\ \A lists \in StoredPlaylistChoices : playlists # lists
  /\ \A liked \in PlaybackLikedChoices : likedSongs # liked

\* C14: whatever the durable store holds at startup (each key missing,
\* malformed or well formed), the constructor returns and the player runs:
\* a malformed value never makes it throw.
C14_StartupToleratesStore == page # "threw"

\* A malformed playback snapshot is ignored by every resume attempt
MalformedSnapshotIgnored ==
  [][(storeSnapshot.malformed /\ (onFocusTimer \/ setupVisibilityHandlers))
       => UNCHANGED << sessionVars, audioVars >>]_vars

\* C15: once the catalog load has failed, the catalog and the filtered view
\* are empty, and no handler gives the player a current song or the audio
\* element a source: clicks on the liked songs read from the store included.
C15_NoPlaybackAfterLoadFailure ==
  /\ [](loadState = "failed" => songs = <<>> /\ filteredSongs = <<>>)
  /\ [][(loadState = "failed" /\ currentSong = NoSong /\ audioSrc = NoSong)
          => (currentSong' = NoSong /\ audioSrc' = NoSong)]_vars

\* C16: the catalog load shows the load error for every kind of failure
\* (network failure, status that is not a success, body that does not parse,
\* body that parses but holds no songs list), and shows none for a
\* well-formed payload.
C16_EveryLoadFailureIsSurfaced ==
  [][\A outcome \in LoadOutcomes :
       LoadSongsDone(outcome) =>
         IF outcome = "ok" THEN error' = error /\ songs' = Catalog
         ELSE error' = "LoadFailed" /\ songs' = <<>>]_vars

\* A call of resumePlaybackIfNeeded: at startup or from a focus timer
ResumeAttempt == onFocusTimer \/ setupVisibilityHandlers

\* C17: a resume attempt changes nothing when no snapshot is stored (or it
\* does not parse), when it was not saved while playing, or when it is
\* 300000 ms old or older; with a snapshot saved while playing and younger
\* than that (299000 ms), naming a song of the loaded catalog that is not the
\* current song, the attempt makes the song current, loads it and installs
\* the listener that calls play when the metadata arrive.
C17_ResumeFreshnessWindow ==
  /\ [][ResumeAttempt =>
          IF \/ ~storeSnapshot.present
             \/ storeSnapshot.malformed
             \/ ~storeSnapshot.isPlaying
             \/ now - storeSnapshot.timestamp >= ResumeWindowMs
          THEN UNCHANGED << sessionVars, audioVars >>
          ELSE ( /\ songsLoaded
                 /\ InCatalog(storeSnapshot.songId)
                 /\ currentSong # storeSnapshot.songId )
               => /\ currentSong' = storeSnapshot.songId
                  /\ audioSrc' = storeSnapshot.songId
                  /\ Len(resumeListeners') = Len(resumeListeners) + 1]_vars
  /\ [][(onLoadedMetadata /\ resumeListeners # <<>>) => ~audioPaused']_vars

C17_Witness ==
  /\ now = 0
  /\ now - storeSnapshot.timestamp = 299000
  /\ storeSnapshot.isPlaying
  /\ currentSong = storeSnapshot.songId
  /\ audioSrc = currentSong
  /\ ~audioPaused
  /\ playPromise = "resume"
  /\ currentPlaylist = <<>>

\* C18: until the catalog has finished loading, no call of
\* resumePlaybackIfNeeded (the startup call, a focus timer) and no focus or
\* visibility event changes the current song, the source of the audio
\* element or its playing state, and no resume listener or resume play is
\* pending, however these events and the end of the load are interleaved.
C18_NoResumeBeforeCatalogLoaded ==
  /\ [](~songsLoaded => (resumeListeners = <<>> /\ playPromise # "resume"))
  /\ [][(~songsLoaded /\ (ResumeAttempt \/ handleWindowFocus))
          => UNCHANGED << sessionVars, audioVars >>]_vars

C18_Witness ==
  /\ page = "running"
  /\ loadState = "pending"
  /\ ~songsLoaded
  /\ SnapshotFresh
  /\ currentSong = NoSong
  /\ audioSrc = NoSong

\* The snapshot is fresh, was saved while playing and names a song of the
\* loaded catalog that is not the current song
ResumesOtherSong ==
  /\ songsLoaded
  /\ SnapshotFresh
  /\ InCatalog(storeSnapshot.songId)
  /\ currentSong # storeSnapshot.songId

\* C19: a resume attempt with a fresh snapshot, saved while playing, that
\* names a catalog song other than the current song (or when there is none)
\* makes that song the current song and the source of the audio element; when
\* the metadata of that song arrive, the position is set to the smaller of
\* the snapshot's position and the duration, and play is called.
C19_ResumeOfAnotherSong ==
  /\ [][(ResumeAttempt /\ ResumesOtherSong)
          => /\ currentSong' = storeSnapshot.songId
             /\ audioSrc' = storeSnapshot.songId
             /\ resumeListeners' = Append(resumeListeners, ResumeClosure)]_vars
  /\ [][( /\ onLoadedMetadata
          /\ resumeListeners # <<>>
          /\ resumeListeners[Len(resumeListeners)].songId = audioSrc )
          => /\ audioTime' =
                  IF resumeListeners[Len(resumeListeners)].currentTime
                       < DurationOf(audioSrc)
                  THEN resumeListeners[Len(resumeListeners)].currentTime
                  ELSE DurationOf(audioSrc)
             /\ ~audioPaused']_vars

C19_Witness ==
  /\ playPromise = "resume"
  /\ ~audioPaused
  /\ currentSong = 1
  /\ audioSrc = 1
  /\ audioTime = DurationOf(1)
  /\ storeSnapshot.songId = 1
  /\ storeSnapshot.currentTime > DurationOf(1)

\* The snapshot is fresh, was saved while playing and names the current song,
\* and the audio element has loaded that song and is paused, with no resume
\* of it waiting for the metadata
ResumesCurrentSong ==
  /\ songsLoaded
  /\ Len(songs) > 0
  /\ SnapshotFresh
  /\ InCatalog(storeSnapshot.songId)
  /\ currentSong = storeSnapshot.songId
  /\ audioSrc = currentSong
  /\ audioPaused
  /\ ~metadataPending
  /\ resumeListeners = <<>>

\* C20: in every reachable state where the snapshot is fresh, was saved while
\* playing and names the current song, and the audio element is paused, a
\* resume attempt calls play on the audio element and changes neither its
\* source nor its position.
C20_ResumeOfPausedCurrentSong ==
  [][(ResumeAttempt /\ ResumesCurrentSong)
       => /\ ~audioPaused'
          /\ audioSrc' = audioSrc
          /\ audioTime' = audioTime]_vars

\* What the code does: play is called when the isPlaying flag is still set,
\* which the pause listener clears; the flag outlives a pause only when the
\* source was assigned while the song was playing
ResumeOfCurrentSongFlaggedPlaying ==
  [][( /\ ResumeAttempt
       /\ songsLoaded
       /\ SnapshotFresh
       /\ currentSong = storeSnapshot.songId
       /\ audioPaused
       /\ isPlaying )
       => /\ ~audioPaused'
          /\ audioSrc' = audioSrc
          /\ audioTime' = audioTime]_vars

\* The catalog is loaded, nothing was played yet, and the snapshot found in
\* the store is fresh, was saved while playing and names a catalog song
FreshSnapshotAfterLoad ==
  /\ loadState = "done"
  /\ SnapshotFresh
  /\ InCatalog(storeSnapshot.songId)
  /\ currentSong = NoSong

\* C21: when the catalog has loaded and the store holds a fresh snapshot,
\* saved while playing, of a catalog song, a resume attempt is eventually made
\* (the snapshot's song is given to the audio element) with no focus or
\* visibility event, unless the user plays a song or the snapshot stops being
\* fresh first.
C21_ResumeAfterLoadWithoutFocus ==
  FreshSnapshotAfterLoad
    ~> (resumeListeners # <<>> \/ currentSong # NoSong \/ ~SnapshotFresh)

\* The pause listener of setupAudio runs
onPauseEvent ==
  /\ onMediaTask
  /\ Head(pendingEvents).type = "pause"

\* The stored snapshot describes the session and the audio element
SnapshotDescribesPlayback ==
  /\ storeSnapshot.present
  /\ ~storeSnapshot.malformed
  /\ storeSnapshot.songId = currentSong
  /\ storeSnapshot.currentTime = audioTime
  /\ storeSnapshot.isPlaying = (isPlaying /\ ~audioPaused)
  /\ storeSnapshot.timestamp = now

\* C22: with a current song, right after a pause event, a window blur, the
\* page becoming hidden or the page unloading, the snapshot that resume reads
\* holds the current song, its position, the current playing flag and the
\* time of the event.
C22_SnapshotWrittenOnPauseAndBlur ==
  [][((onPauseEvent \/ handleWindowBlur) /\ currentSong # NoSong)
       => SnapshotDescribesPlayback']_vars

\* What the code does: the same for the blur, hidden and unload events alone
SnapshotWrittenOnBlur ==
  [][(handleWindowBlur /\ currentSong # NoSong)
       => SnapshotDescribesPlayback']_vars

\* The callers of play() that are a playSong call
PlaySongCallers == {"playSong", "playSongAsync", "fallback"}

\* The messages that a failure to fetch or decode the source shows for a
\* playSong call: that of the error listener and that of the rejected promise
SourceFailureMessages ==
  {"FailedToLoad"} \cup {RejectionMessage(caller) : caller \in PlaySongCallers}

\* C23: when the play() of a playSong call is refused because the platform
\* blocks autoplay, the message shown is none of those that a failure to
\* fetch or decode the source shows.
C23_NotAllowedSurfacedDistinctly ==
  [][(onPlayBlocked /\ playPromise \in PlaySongCallers)
       => error' \notin SourceFailureMessages]_vars

\* C24: a playback that failed never stays in Playing and the failure is
\* shown: once the source could not be loaded, or play() was refused, and the
\* queued tasks of the audio element have run, isPlaying is false; each
\* failure shows an error.
C24_FailureEndsNotPlaying ==
  /\ []((audioError /\ Quiescent) => ~isPlaying)
  /\ [][(onPlayBlocked /\ pendingEvents' = <<>>) => ~isPlaying']_vars
  /\ [][onSourceFailed => error' # "none"]_vars
  /\ [][(onPlayBlocked /\ playPromise = "playSong") => error' # "none"]_vars

\* What the code does for the other half of the claim: when the play promise
\* of a playSong call resolves, the controller is in Playing with the song of
\* the audio element as current song
PlayingWhenPlaybackStarted ==
  [][(onPlaybackStarted /\ playPromise = "playSong")
       => (isPlaying' /\ currentSong' = audioSrc' /\ ~audioPaused')]_vars

\* The source that the audio element is loading was assigned by a resume
\* attempt: its listener waits for the metadata and play() was not yet called
ResumeLoading ==
  /\ metadataPending
  /\ playPromise = "none"
  /\ resumeListeners # <<>>
  /\ resumeListeners[Len(resumeListeners)].songId = audioSrc

\* The play promise of a resume attempt is rejected
onResumeRejected ==
  \/ onPlayBlocked /\ playPromise = "resume"
  \/ onMediaTask /\ Head(pendingEvents).aborted = "resume"

\* C25: a failure of a resume attempt shows no error to the user: neither the
\* rejection of its play promise (autoplay blocked, or playback aborted) nor
\* the failure to fetch or decode the source that the resume assigned changes
\* the error shown.
C25_ResumeFailureOnlyLogged ==
  [][(onResumeRejected \/ (onSourceFailed /\ ResumeLoading))
       => error' = error]_vars

\* What the code does: the rejections of the play promise alone show nothing
ResumeRejectionOnlyLogged ==
  [][onResumeRejected => error' = error]_vars

\* Nothing of the player changes: catalog, library, store, session, audio
\* element, view and error
PlayerUnchanged ==
  UNCHANGED << pageVars, catalogVars, libraryVars, storeSnapshot, sessionVars,
               audioVars, viewVars, workerVars, wakeVars, displayVars, cacheVars, now, error >>

\* C26: togglePlayPause changes nothing when there is no current song; with a
\* current song it calls play on a paused audio element (the element leaves
\* the paused state and its play task is queued) and pauses a playing one
\* (the element is paused and its pause task is queued), and leaves the
\* session and the source alone.  nextSong and previousSong change nothing
\* when currentPlaylist is empty.
C26_ToggleAndSkipNoOps ==
  /\ [][(togglePlayPause /\ currentSong = NoSong) => PlayerUnchanged]_vars
  /\ [][(togglePlayPause /\ currentSong # NoSong /\ audioPaused)
          => /\ ~audioPaused'
             /\ pendingEvents' = Append(pendingEvents, Task("play", "none"))
             /\ UNCHANGED << sessionVars, audioSrc, audioTime >>]_vars
  /\ [][(togglePlayPause /\ currentSong # NoSong /\ ~audioPaused)
          => /\ audioPaused'
             /\ Len(pendingEvents') = Len(pendingEvents) + 1
             /\ pendingEvents'[Len(pendingEvents')].type = "pause"
             /\ UNCHANGED << sessionVars, audioSrc, audioTime >>]_vars
  /\ [][((nextSong \/ previousSong) /\ currentPlaylist = <<>>)
          => PlayerUnchanged]_vars

\* A song that was loaded and played has been paused by togglePlayPause
C26_Witness ==
  /\ currentSong # NoSong
  /\ audioSrc = currentSong
  /\ currentPlaylist # <<>>
  /\ audioPaused
  /\ ~metadataPending
  /\ ~isPlaying
  /\ pendingEvents = <<>>

\* C27: a platform seek command to a position of the song, 0 included, with
\* the audio element playing or paused, leaves the playback position there and
\* publishes it in the position state, as seek does.
C27_MediaSeekLikeSeek ==
  [][\A t \in SeekTargets :
       (mediaSeekTo(t) /\ currentSong # NoSong /\ DurationKnown)
         => (audioTime' = t /\ mediaSession'.position = t)]_vars

\* What the code does for the slider: seek leaves the position at the target
\* and publishes it
SeekSetsAndPublishesPosition ==
  [][\A t \in SeekTargets, slider \in Sliders :
       (seek(slider, t) /\ currentSong # NoSong /\ DurationKnown)
         => (audioTime' = t /\ mediaSession'.position = t)]_vars

\* C28: between handlers the slider of the full player and the slider of the
\* mini player show the same value, whatever timeupdate events, seeks from
\* either slider, platform seek commands and song changes came before.
C28_ProgressDisplaysAgree ==
  playerElements.progress = playerElements.miniProgress

\* A seek to 5 s was followed by a song change: both sliders still show 5
C28_Witness ==
  /\ playerElements.progress = 5
  /\ playerElements.miniProgress = 5
  /\ currentSong # NoSong
  /\ metadataPending
  /\ audioTime = 0

\* C29: between handlers, when there is a current song, the metadata that
\* navigator.mediaSession holds carry the title and the artist of the current
\* song, and its playbackState is "playing" exactly when isPlaying is true.
C29_MediaSessionFollowsPlayer ==
  currentSong # NoSong =>
    /\ mediaSession.song # NoSong
    /\ titleOf(mediaSession.song) = titleOf(currentSong)
    /\ artistOf(mediaSession.song) = artistOf(currentSong)
    /\ (mediaSession.playbackState = "playing") = isPlaying

\* A second song was played after a first one and its play event was handled
C29_Witness ==
  /\ currentSong = 2
  /\ currentIndex = 1
  /\ isPlaying
  /\ ~audioPaused
  /\ mediaSession.song = 2
  /\ mediaSession.playbackState = "playing"
  /\ pendingEvents = <<>>

\* The two forms of a letter
CasePairs ==
  { <<"a", "A">>, <<"b", "B">>, <<"d", "D">>, <<"f", "F">>, <<"j", "J">>,
    <<"l", "L">>, <<"o", "O">>, <<"r", "R">> }

SameLetter(a, b) == a = b \/ <<a, b>> \in CasePairs \/ <<b, a>> \in CasePairs

\* The query occurs in the text at some offset, letter case ignored
ContainsIgnoringCase(text, query) ==
  \E k \in 0..(Len(text) - Len(query)) :
    \A i \in 1..Len(query) : SameLetter(text[k + i], query[i])

\* A query of no character or of spaces only
BlankQuery(query) == \A i \in 1..Len(query) : query[i] = " "

\* The view holds the songs of the catalog that the query selects, each once
\* and in the order of the catalog
IsFilteredView(view, catalog, query) ==
  /\ Range(view) =
       { id \in Range(catalog) :
           \/ BlankQuery(query)
           \/ ContainsIgnoringCase(titleOf(id), query)
           \/ ContainsIgnoringCase(artistOf(id), query) }
  /\ \A i, j \in 1..Len(view) :
       i < j => FindIndex(catalog, view[i]) < FindIndex(catalog, view[j])

\* C30: after handleSearch(query) the filtered view is the subsequence of the
\* catalog, in catalog order, of the songs whose title or artist contains the
\* query whatever the letter case, and the whole catalog for a blank query;
\* the catalog is left as it was.
C30_SearchFiltersCatalog ==
  [][\A query \in SearchQueries :
       handleSearch(query) =>
         /\ songs' = songs
         /\ IsFilteredView(filteredSongs', songs, query)]_vars

\* The catalog is loaded and the view holds the song titled Lo-Fi and the
\* song of the artist Lola, and no other
C30_Witness ==
  /\ songs = Catalog
  /\ filteredSongs = <<1, 2>>

\* ------------------------------------ the service worker (src/unnamed/part_000)
\* Number of fetch events the worker may be answering at once.
MaxFetches == 2

\* Everything but the service worker and the wake lock: the page and its
\* durable store
pageStateVars ==
  << songs, filteredSongs, songsLoaded, loadState, likedSongs, playlists,
     storeLiked, storePlaylists, storeSnapshot, currentSong, currentPlaylist,
     currentIndex, isPlaying, currentView, audioSrc, audioPaused,
     audioEnded, playPromise, metadataPending, resumeListeners,
     pendingEvents, inFlight, tempSongCache, now, error, result, likeProbe,
     page, focusTimers, audioTime, audioError, playerElements, mediaSession,
     audioVolume >>

\* The URLs that are requested, each as the pieces of its text.  The first
\* two are entries of STATIC_FILES.
IndexUrl == <<"/index.html">>
SongsUrl == <<"/songs.json">>
PageUrl == <<"/playlists">>
FontUrl == <<"https://fonts.gstatic.com", "/inter", ".woff2">>
SongUrl == <<"/songs/a", ".mp3">>

\* STATIC_FILES, two of its nine entries
STATIC_FILES == { IndexUrl, SongsUrl }

STATIC_CACHE == "groove-static-v1.0.0"
DYNAMIC_CACHE == "groove-dynamic-v1.0.0"

\* A cache that an earlier version of the worker left
OLD_CACHE == "groove-static-v0.9.0"

\* The extensions the fetch listener looks for in request.url
AudioExtensions == {".mp3", ".wav", ".ogg", ".m4a", ".flac"}

\* request.url.includes(".mp3") || ... || request.url.includes(".flac")
UrlNamesAudio(url) == \E ext \in AudioExtensions : includes(url, <<ext>>)

\* new URL(request.url).origin !== location.origin
ExternalOrigins == {"https://fonts.gstatic.com"}
IsExternal(url) == Head(url) \in ExternalOrigins

\* new URL(request.url).pathname
Pathname(url) ==
  IF IsExternal(url)
  THEN IF Len(url) = 1 THEN <<"/">> ELSE Tail(url)
  ELSE url

\* The requests of the page: navigations, the catalog, a font and the audio
\* of a song
Request(url, destination) == [url |-> url, destination |-> destination]

Requests ==
  { Request(IndexUrl, "document"), Request(PageUrl, "document"),
    Request(SongsUrl, ""), Request(FontUrl, "font"),
    Request(SongUrl, "audio") }

\* fetch(request) rejects: the network is unreachable
Unreachable == -1

\* What the network gives for a request: a response with its status, or
\* nothing
NetworkOutcomes == {200, 404, Unreachable}

\* The urls of an UPDATE_CACHE message
UpdateUrlChoices == { {IndexUrl}, {SongUrl} }

\* caches.match(key): a response stored under the key in some cache
Cached(w, url) == \E name \in DOMAIN w.caches : url \in w.caches[name]

\* caches.open(name) then put or addAll: the cache is created when absent
PutAll(cachesNow, name, urls) ==
  [n \in DOMAIN cachesNow \cup {name} |->
     IF n = name
     THEN (IF n \in DOMAIN cachesNow THEN cachesNow[n] ELSE {}) \cup urls
     ELSE cachesNow[n]]

Reply(request, kind, status, contacted) ==
  [request |-> request, kind |-> kind, status |-> status, contacted |-> contacted]

\* The worker of this version is registered while an earlier version may have
\* left a cache
WorkerChoices ==
  { [NoWorker EXCEPT !.state = "installing"],
    [NoWorker EXCEPT !.state = "installing",
                     !.caches = [name \in {OLD_CACHE} |-> {IndexUrl}]] }

\* install: cache.addAll(STATIC_FILES) stores all the files or, when one of
\* them cannot be fetched, none; the failure is caught and logged
swInstall(outcome) ==
  /\ worker.state = "installing"
  /\ worker' =
       [worker EXCEPT
          !.state = "installed", !.reply = NoReply,
          !.caches = IF outcome = "ok"
                     THEN PutAll(worker.caches, STATIC_CACHE, STATIC_FILES)
                     ELSE PutAll(worker.caches, STATIC_CACHE, {})]
  /\ UNCHANGED << pageStateVars, wakeVars >>

\* activate: the caches of other names are deleted
swActivate ==
  /\ worker.state = "installed"
  /\ worker' =
       [worker EXCEPT
          !.state = "active", !.reply = NoReply,
          !.caches = [name \in DOMAIN worker.caches \cap {STATIC_CACHE, DYNAMIC_CACHE}
                        |-> worker.caches[name]]]
  /\ UNCHANGED << pageStateVars, wakeVars >>

\* A fetch event arrives: an audio request goes to the network, any other one
\* to caches.match
swFetch(request) ==
  /\ worker.state = "active"
  /\ Cardinality(worker.fetches) < MaxFetches
  /\ worker' =
       [worker EXCEPT
          !.reply = NoReply,
          !.fetches = @ \cup
            { [request |-> request,
               stage |-> IF UrlNamesAudio(request.url) THEN "audio" ELSE "match"] }]
  /\ UNCHANGED << pageStateVars, wakeVars >>

\* fetch(request) of the audio branch settles
swAudioSettles(f, outcome) ==
  /\ f \in worker.fetches
  /\ f.stage = "audio"
  /\ worker' =
       [worker EXCEPT
          !.fetches = @ \ {f},
          !.reply = IF outcome = Unreachable
                    THEN Reply(f.request, "made", 404, TRUE)
                    ELSE Reply(f.request, "network", outcome, TRUE)]
  /\ UNCHANGED << pageStateVars, wakeVars >>

\* caches.match(request) of the cache-first branch settles: a response found
\* is the answer, otherwise the request goes to the network
swMatchSettles(f) ==
  /\ f \in worker.fetches
  /\ f.stage = "match"
  /\ worker' =
       IF Cached(worker, f.request.url)
       THEN [worker EXCEPT !.fetches = @ \ {f},
                           !.reply = Reply(f.request, "cached", 200, FALSE)]
       ELSE [worker EXCEPT !.reply = NoReply,
                           !.fetches = (@ \ {f}) \cup {[f EXCEPT !.stage = "network"]}]
  /\ UNCHANGED << pageStateVars, wakeVars >>

\* Every response of the network is kept
StoresAnyStatus(request, status) ==
  IsExternal(request.url) \/ Pathname(request.url) \in STATIC_FILES

\* networkResponse.status === 200 && (url.origin !== location.origin ||
\* STATIC_FILES.includes(url.pathname))
StoresResponse(request, status) ==
  /\ status = 200
  /\ IsExternal(request.url) \/ Pathname(request.url) \in STATIC_FILES

\* fetch(request) of the cache-first branch settles: the response is the
\* answer and a copy of it may be put in the dynamic cache; without network a
\* document request looks for /index.html and any other gets a 503
swNetworkSettles(f, outcome) ==
  /\ f \in worker.fetches
  /\ f.stage = "network"
  /\ worker' =
       IF outcome # Unreachable
       THEN [worker EXCEPT
               !.fetches = @ \ {f},
               !.reply = Reply(f.request, "network", outcome, TRUE),
               !.puts = IF StoresResponse(f.request, outcome)
                        THEN @ \cup {f.request.url} ELSE @]
       ELSE IF f.request.destination = "document"
       THEN [worker EXCEPT !.reply = NoReply,
                           !.fetches = (@ \ {f}) \cup {[f EXCEPT !.stage = "fallback"]}]
       ELSE [worker EXCEPT !.fetches = @ \ {f},
                           !.reply = Reply(f.request, "made", 503, TRUE)]
  /\ UNCHANGED << pageStateVars, wakeVars >>

\* caches.match("/index.html") of the catch callback settles: its value, a
\* response or undefined, is what respondWith gets
swFallbackSettles(f) ==
  /\ f \in worker.fetches
  /\ f.stage = "fallback"
  /\ worker' =
       [worker EXCEPT
          !.fetches = @ \ {f},
          !.reply = IF Cached(worker, IndexUrl)
                    THEN Reply(f.request, "offlineDocument", 200, TRUE)
                    ELSE Reply(f.request, "undefined", 0, TRUE)]
  /\ UNCHANGED << pageStateVars, wakeVars >>

\* caches.open(DYNAMIC_CACHE).then(cache => cache.put(request, responseClone))
swPutSettles(url) ==
  /\ url \in worker.puts
  /\ worker' =
       [worker EXCEPT !.puts = @ \ {url}, !.reply = NoReply,
                      !.caches = PutAll(worker.caches, DYNAMIC_CACHE, {url})]
  /\ UNCHANGED << pageStateVars, wakeVars >>

\* The UPDATE_CACHE message: cache.addAll(data.urls) on the static cache; a
\* failure of the network is caught and logged
updateCache(urls, outcome) ==
  /\ worker.state = "active"
  /\ worker' =
       [worker EXCEPT
          !.reply = NoReply,
          !.caches = PutAll(worker.caches, STATIC_CACHE,
                            IF outcome = "ok" THEN urls ELSE {})]
  /\ UNCHANGED << pageStateVars, wakeVars >>

\* The CLEAR_CACHE message: every cache is deleted
clearCache ==
  /\ worker.state = "active"
  /\ worker' = [worker EXCEPT !.reply = NoReply, !.caches = [name \in {} |-> {}]]
  /\ UNCHANGED << pageStateVars, wakeVars >>

InitWorker ==
  /\ PageConstructed(<<>>, <<>>, NoSnapshot, NoPublication)
  /\ worker \in WorkerChoices
  /\ wakeLock = NoWakeLock

InstallOutcomes == {"ok", "failed"}

NextWorker ==
  \/ \E outcome \in InstallOutcomes : swInstall(outcome)
  \/ swActivate
  \/ \E request \in Requests : swFetch(request)
  \/ \E f \in worker.fetches, outcome \in NetworkOutcomes : swAudioSettles(f, outcome)
  \/ \E f \in worker.fetches : swMatchSettles(f)
  \/ \E f \in worker.fetches, outcome \in NetworkOutcomes : swNetworkSettles(f, outcome)
  \/ \E f \in worker.fetches : swFallbackSettles(f)
  \/ \E url \in worker.puts : swPutSettles(url)
  \/ \E urls \in UpdateUrlChoices, outcome \in InstallOutcomes : updateCache(urls, outcome)
  \/ clearCache

SpecWorker == InitWorker /\ [][NextWorker]_vars

\* The url is that of an audio file: its text ends with an audio extension
IsAudioFile(url) == url # <<>> /\ url[Len(url)] \in AudioExtensions

\* What the code does for the audio requests: each is answered after the
\* network was asked, with the response of the network or, when the network
\* is unreachable, with a 404 response made by the worker
AudioAnsweredFromNetwork ==
  (worker.reply.kind # "none" /\ IsAudioFile(worker.reply.request.url))
    => /\ worker.reply.contacted
       /\ worker.reply.kind \in {"network", "made"}
       /\ worker.reply.kind = "made" => worker.reply.status = 404

\* C31: whatever fetch events and cache-update messages came, no cache of the
\* worker holds the response of an audio file, and an audio request is
\* answered from the network or, without network, with an error response.
C31_AudioNeverCached ==
  /\ \A name \in DOMAIN worker.caches :
       \A url \in worker.caches[name] : ~IsAudioFile(url)
  /\ AudioAnsweredFromNetwork

\* The responses that the dynamic cache holds
DynamicEntries(w) ==
  IF DYNAMIC_CACHE \in DOMAIN w.caches THEN w.caches[DYNAMIC_CACHE] ELSE {}

\* C32: for a request that is not an audio request, a response found in a
\* cache is the answer and the network is not asked; when none is found the
\* network is asked, its response is the answer, and a copy is kept for the
\* dynamic cache exactly when the status is 200 and the resource is of another
\* origin or a listed static file; nothing else enters the dynamic cache.
C32_CacheFirstForOtherRequests ==
  /\ [][\A f \in worker.fetches :
          swMatchSettles(f) =>
            IF \E name \in DOMAIN worker.caches : f.request.url \in worker.caches[name]
            THEN /\ worker'.reply.request = f.request
                 /\ worker'.reply.kind = "cached"
                 /\ ~worker'.reply.contacted
                 /\ worker'.puts = worker.puts
            ELSE /\ worker'.reply.kind = "none"
                 /\ [f EXCEPT !.stage = "network"] \in worker'.fetches]_vars
  /\ [][\A f \in worker.fetches, status \in {200, 404} :
          swNetworkSettles(f, status) =>
            /\ worker'.reply.request = f.request
            /\ worker'.reply.kind = "network"
            /\ worker'.reply.status = status
            /\ worker'.puts =
                 IF /\ status = 200
                    /\ IsExternal(f.request.url) \/ f.request.url \in STATIC_FILES
                 THEN worker.puts \cup {f.request.url}
                 ELSE worker.puts]_vars
  /\ [][DynamicEntries(worker') \ DynamicEntries(worker) \subseteq worker.puts]_vars

\* The font of another origin, once fetched with status 200 and put in the
\* dynamic cache, is answered from the cache
C32_Witness ==
  /\ worker.reply.kind = "cached"
  /\ worker.reply.request.url = FontUrl
  /\ ~worker.reply.contacted
  /\ FontUrl \in DynamicEntries(worker)

\* What the code does for the other requests: without network a request that
\* is not for a document is answered with a 503 response made by the worker
OfflineRequestGets503 ==
  [][\A f \in worker.fetches :
       (swNetworkSettles(f, Unreachable) /\ f.request.destination # "document")
         => /\ worker'.reply.request = f.request
            /\ worker'.reply.kind = "made"
            /\ worker'.reply.status = 503]_vars

\* C33: when the network is unreachable, a document request that no cache
\* answers is answered with the cached offline document, a response, in every
\* state of the installed worker, and a request of another kind with a 503
\* response.
C33_OfflineDocumentFallback ==
  /\ [][\A f \in worker.fetches :
          swFallbackSettles(f) =>
            /\ worker'.reply.request = f.request
            /\ worker'.reply.kind = "offlineDocument"]_vars
  /\ OfflineRequestGets503

\* The oldest task carries the rejection of the play promise of a playSong
\* call while the play promise of a later playSong call is pending
StaleRejection ==
  /\ pendingEvents # <<>>
  /\ Head(pendingEvents).aborted = "playSong"
  /\ playPromise = "playSong"

\* What the code does: the late rejection leaves the session and the source
\* of the later call alone
StaleRejectionKeepsSession ==
  [][(onMediaTask /\ StaleRejection)
       => UNCHANGED << sessionVars, audioSrc >>]_vars

\* C34: once playSong was called again, the late rejection of the play
\* request of the earlier call changes nothing of the session and shows no
\* error.
C34_StaleCompletionDiscarded ==
  [][(onMediaTask /\ StaleRejection)
       => (error' = error /\ UNCHANGED << sessionVars, audioSrc >>)]_vars

\* The metadata of a source arrive while every listener that a resume
\* installed was installed for another song
MetadataOfAnotherSong ==
  /\ resumeListeners # <<>>
  /\ \A i \in 1..Len(resumeListeners) : resumeListeners[i].songId # audioSrc

\* C35: the seek that a resume deferred to loadedmetadata is applied to the
\* song of the snapshot only: when the metadata that arrive are those of
\* another song, which the user selected meanwhile, that song stays at
\* position 0.
C35_DeferredSeekOnlyForSnapshotSong ==
  [][(onLoadedMetadata /\ MetadataOfAnotherSong)
       => (audioTime = 0 /\ audioTime' = 0)]_vars

\* C36: a pause command of the platform never starts playback and a play
\* command never pauses it: delivered while the audio element is paused, the
\* pause command leaves it paused, and delivered while it plays, the play
\* command leaves it playing.
C36_MediaCommandsDirectionSafe ==
  /\ [][(mediaAction("pause") /\ audioPaused) => audioPaused']_vars
  /\ [][(mediaAction("play") /\ ~audioPaused) => ~audioPaused']_vars

\* What the code does for the volumes above 0: the resume of another song
\* sets the volume of the snapshot
ResumeRestoresAudibleVolume ==
  [][(ResumeAttempt /\ ResumesOtherSong /\ storeSnapshot.volume # 0)
       => audioVolume' = storeSnapshot.volume]_vars

\* C37: a resume of a song other than the current one leaves the volume of
\* the audio element equal to the volume of the snapshot, for every saved
\* volume from 0 (muted) to 1.
C37_ResumeRestoresVolume ==
  [][(ResumeAttempt /\ ResumesOtherSong)
       => audioVolume' = storeSnapshot.volume]_vars

\* ------------------------------------------------- the three like controls
\* The page is opened on a store whose liked songs hold no id twice; the
\* user likes and unlikes from the song lists (toggleSongLike) and from the
\* like button of the player or the L key (toggleLike) on the song played.
InitLikeControls ==
  \E liked \in StoredLikedChoices : Constructed(liked, <<>>, NoSnapshot)

NextLikeControls ==
  \/ Quiescent /\ \E outcome \in LoadOutcomes : LoadSongsDone(outcome)
  \/ Quiescent /\ \E song \in AllIds : playSong(song)
  \/ onMediaTask
  \/ Quiescent /\ \E songId \in AllIds : toggleSongLike(songId)
  \/ Quiescent /\ toggleLike

SpecLikeControls == InitLikeControls /\ [][NextLikeControls]_vars

\* C38: starting from a store whose liked songs hold no id twice, no id is
\* twice among the liked songs, in memory or in the durable store, after
\* any sequence of toggles from the song lists, the like button of the
\* player or the keyboard shortcut.
C38_LikedSongsDuplicateFree ==
  /\ NoDup(likedSongs)
  /\ NoDup(storeLiked)

C38_Witness ==
  /\ result.op = "toggleSongLike"
  /\ result.path = "Toggled"
  /\ currentSong # NoSong
  /\ result.args = <<currentSong>>
  /\ likeProbe.k = 2
  /\ currentSong \in Range(likeProbe.before)
  /\ currentSong \in Range(likedSongs)
  /\ StaleId \in Range(likedSongs)
  /\ Len(likedSongs) >= 3

\* ------------------------------------------- playback and the wake lock
\* The page is opened on a platform that has navigator.wakeLock; the user
\* plays, pauses and hides the page while the promises of the wake lock
\* settle in any order.

\* The visibilitychange event: the platform releases the locks of a page
\* that gets hidden and handleVisibilityChange saves the playback state; on
\* a page that gets visible the listener of setupWakeLock runs and
\* handleVisibilityChange calls handleWindowFocus
handleVisibilityChange(state) ==
  /\ page = "running"
  /\ state = IF wakeLock.visible THEN "hidden" ELSE "visible"
  /\ IF state = "hidden"
     THEN /\ wakeLock' = [wakeLock EXCEPT !.visible = FALSE, !.held = {}]
          /\ storeSnapshot' = SavedSnapshot
          /\ UNCHANGED focusTimers
     ELSE /\ wakeLock' = VisibilityListener([wakeLock EXCEPT !.visible = TRUE])
          /\ IF songsLoaded
             THEN /\ focusTimers < MaxTimers
                  /\ focusTimers' = focusTimers + 1
             ELSE UNCHANGED focusTimers
          /\ UNCHANGED storeSnapshot
  /\ ResetProbes
  /\ UNCHANGED << page, catalogVars, libraryVars, sessionVars, audioVars,
                  viewVars, workerVars, displayVars, cacheVars, now, error, result >>

\* The release() promise of releaseWakeLock resolves: this.wakeLock = null
onWakeLockReleased ==
  /\ wakeLock.releasing > 0
  /\ wakeLock' = [wakeLock EXCEPT !.releasing = @ - 1, !.ref = NoLock]
  /\ UNCHANGED << pageStateVars, workerVars >>

\* The release() promise that requestWakeLock awaits resolves: the request
\* of the new lock is made
onReleaseAwaited ==
  /\ wakeLock.awaiting > 0
  /\ wakeLock' = [wakeLock EXCEPT !.awaiting = @ - 1, !.requesting = @ + 1]
  /\ UNCHANGED << pageStateVars, workerVars >>

\* How navigator.wakeLock.request settles: the document must be visible
\* for a lock to be granted
RequestOutcomes == {"granted", "rejected"}

\* The promise of navigator.wakeLock.request settles: this.wakeLock is set
\* to the lock granted, or the rejection is logged
onWakeLockRequested(outcome, lock) ==
  /\ wakeLock.requesting > 0
  /\ IF outcome = "granted"
     THEN /\ wakeLock.visible
          /\ lock \notin wakeLock.held \cup {wakeLock.ref}
          /\ wakeLock' = [wakeLock EXCEPT !.requesting = @ - 1, !.ref = lock,
                                          !.held = @ \cup {lock}]
     ELSE wakeLock' = [wakeLock EXCEPT !.requesting = @ - 1]
  /\ UNCHANGED << pageStateVars, workerVars >>

InitWakeLock == OpeningOn("missing", "missing", <<>>, <<>>, NoSnapshot, SupportedWakeLock)

\* A promise of the wake lock may still be made
WakeLockRoom == WakeLockPromises(wakeLock) < MaxWakeLocks

NextWakeLock ==
  \/ setupVisibilityHandlers
  \/ WakeLockRoom /\ onMediaTask
  \/ Quiescent /\ \E outcome \in LoadOutcomes : LoadSongsDone(outcome)
  \/ Running /\ WakeLockRoom
       /\ \E state \in {"hidden", "visible"} : handleVisibilityChange(state)
  \/ Running /\ WakeLockRoom /\ onFocusTimer
  \/ Running /\ \E song \in SongIds : playSong(song)
  \/ Running /\ togglePlayPause
  \/ Running /\ onLoadedMetadata
  \/ Running /\ onPlaybackStarted
  \/ onWakeLockReleased
  \/ onReleaseAwaited
  \/ \E outcome \in RequestOutcomes, lock \in LockIds :
       onWakeLockRequested(outcome, lock)

SpecWakeLock == InitWakeLock /\ [][NextWakeLock]_vars

\* Every promise of the wake lock has settled and no task of the audio
\* element is waiting
WakeLockSettled == WakeLockPromises(wakeLock) = 0 /\ Quiescent

\* C39: once every pending wake lock request and release has settled, a
\* lock is held only if the audio is playing, and this.wakeLock refers to
\* every lock that is held, whatever the order of the play and pause events
\* and of the completions.
C39_WakeLockFollowsPlayback ==
  WakeLockSettled =>
    /\ wakeLock.held # {} => ~audioPaused
    /\ wakeLock.held \subseteq {wakeLock.ref}

====
